---- MODULE Spec2Model ----
(***************************************************************************)
(* kysely-access-control: the query-IR transformer of                      *)
(* src/src/kyselyAccessControl.ts.  A statement (the operation-node tree   *)
(* kysely hands to a plugin) is a record; the Transformer's handlers are   *)
(* operators that return the rewritten node, the error they throw, and the *)
(* guard calls they made, in order.  The plugin is the state machine:      *)
(* createAccessControlPlugin fixes the guard, transformQuery rewrites a    *)
(* statement.                                                              *)
(***************************************************************************)
EXTENDS Integers, Sequences, FiniteSets, TLC

VARIABLES guard, pc, input, output

vars == <<guard, pc, input, output>>

(***************************************************************************)
(* Bounds of the model.                                                    *)
(***************************************************************************)
MaxSelections == 2
MaxRows == 2

(***************************************************************************)
(* Decision types and enums (kyselyAccessControl.ts 32-57).                *)
(***************************************************************************)
Allow == "allow"
Deny == "deny"
Omit == "omit"

StatementType ==
  [Select |-> "select", Insert |-> "insert", Update |-> "update", Delete |-> "delete"]

ColumnUsageContext ==
  [ColumnInSelectOrReturning |-> "column-in-select-or-returning",
   ColumnInWhereOrJoin |-> "column-in-where-or-join",
   ColumnInUpdateSet |-> "column-in-update-set",
   ColumnInInsert |-> "column-in-insert"]

TableUsageContext ==
  [TableTopLevel |-> "table-top-level", TableInJoin |-> "table-in-join"]

StatementTypes == {StatementType[k] : k \in DOMAIN StatementType}
ColumnUsageContexts == {ColumnUsageContext[k] : k \in DOMAIN ColumnUsageContext}
TableUsageContexts == {TableUsageContext[k] : k \in DOMAIN TableUsageContext}

(***************************************************************************)
(* Operation nodes.  An absent optional property is a record with          *)
(* present = FALSE (or the None value of its type).                        *)
(***************************************************************************)
\* TableNode["table"]: an identifier and an optional schema ("" = no schema).
NoTable == [schema |-> "", name |-> ""]
PersonTable == [schema |-> "", name |-> "person"]
RsvpTable == [schema |-> "public", name |-> "rsvp"]
Tables == {PersonTable, RsvpTable}
Columns == {"id", "name"}

\* An expression is known by its column references, left to right; AndNode
\* is the only connective the transformer builds itself.
NoExpr == [op |-> "none", tag |-> "", refs |-> <<>>, args |-> <<>>]
Atom(tag, refs) == [op |-> "atom", tag |-> tag, refs |-> refs, args |-> <<>>]
AndNodeCreate(l, r) == [op |-> "and", tag |-> "", refs |-> <<>>, args |-> <<l, r>>]

\* ReferenceNode: optional table, and a ColumnNode or a SelectAllNode ("*").
Ref(t, c) == [table |-> t, column |-> c]

\* WhereNode / OnNode
NoWhere == [present |-> FALSE, where |-> NoExpr]
WhereNodeCreate(e) == [present |-> TRUE, where |-> e]

\* SelectionNode: its selection is a ReferenceNode (isRef) or a bare SelectAllNode.
Selection(t, c) == [isRef |-> TRUE, table |-> t, column |-> c]
SelectionCreateSelectAll == [isRef |-> FALSE, table |-> NoTable, column |-> "*"]

NoNode ==
  [kind |-> "none"]

\* TableNode or AliasNode(SelectQueryNode, alias)
TableNodeCreate(t) == [kind |-> "TableNode", table |-> t, node |-> NoNode, alias |-> ""]
AliasNodeCreate(n, a) == [kind |-> "AliasNode", table |-> NoTable, node |-> n, alias |-> a]

NoClause == [present |-> FALSE, items |-> <<>>]
Clause(items) == [present |-> TRUE, items |-> items]

\* JoinNode
JoinNodeCreate(src, on) == [table |-> src, on |-> on]

\* The root nodes.  One record shape for the four statements (and for a
\* MergeQueryNode, which the base transformer can also hand a returning
\* clause from); a property a statement does not have is absent.
EmptyQuery(kind) ==
  [kind |-> kind,
   from |-> NoClause,          \* FromNode: froms
   table |-> TableNodeCreate(NoTable),  \* UpdateQueryNode.table
   into |-> NoTable,           \* InsertQueryNode.into
   selections |-> NoClause,
   joins |-> <<>>,
   using |-> NoClause,         \* UsingNode: tables
   where |-> NoWhere,
   columns |-> NoClause,       \* InsertQueryNode.columns
   values |-> <<>>,            \* value rows of the insert
   updates |-> <<>>,           \* ColumnUpdateNode list
   returning |-> NoClause]

SelectQueryNodeCreateFrom(froms) ==
  [EmptyQuery("SelectQueryNode") EXCEPT !.from = Clause(froms)]

SelectQueryNodeCloneWithSelections(n, sels) ==
  [n EXCEPT !.selections =
     Clause((IF n.selections.present THEN n.selections.items ELSE <<>>) \o sels)]

(***************************************************************************)
(* Guard results (kyselyAccessControl.ts 59-65).  arr = TRUE is the tuple  *)
(* form [Allow, predicate] or [Deny, reason].                              *)
(***************************************************************************)
AllowPlain == [tag |-> Allow, arr |-> FALSE, pred |-> NoExpr, reason |-> ""]
AllowWith(p) == [tag |-> Allow, arr |-> TRUE, pred |-> p, reason |-> ""]
DenyPlain == [tag |-> Deny, arr |-> FALSE, pred |-> NoExpr, reason |-> ""]
DenyWith(r) == [tag |-> Deny, arr |-> TRUE, pred |-> NoExpr, reason |-> r]
OmitPlain == [tag |-> Omit, arr |-> FALSE, pred |-> NoExpr, reason |-> ""]

(***************************************************************************)
(* Grants (kyselyGrants.ts): a guard made from a list of grants.           *)
(***************************************************************************)
MaxGrants == 3

\* A property a grant leaves out.
undefined == "undefined"

NoColumns == [present |-> FALSE, items |-> <<>>]
ColumnsOf(cs) == [present |-> TRUE, items |-> cs]

\* Grant (15-37): hasWhere is '"where" in grant'.
GrantWithoutWhereClause(table, schema, for, columns) ==
  [table |-> table, schema |-> schema, for |-> for, columns |-> columns,
   hasWhere |-> FALSE, where |-> NoExpr, whereType |-> undefined]
GrantWithWhereClause(table, schema, for, columns, where, whereType) ==
  [table |-> table, schema |-> schema, for |-> for, columns |-> columns,
   hasWhere |-> TRUE, where |-> where, whereType |-> whereType]

\* isGrantWithWhereClause (39-44)
isGrantWithWhereClause(grant) == grant.hasWhere

\* table.schema?.name
SchemaName(table) == IF table.schema = "" THEN undefined ELSE table.schema

\* expressionBuilder().or / .and over a list: one expression stands for
\* itself, several are combined; .lit(false)
ebOr(exprs) ==
  IF Len(exprs) = 1 THEN exprs[1]
  ELSE [op |-> "or", tag |-> "", refs |-> <<>>, args |-> exprs]
ebAnd(exprs) ==
  IF Len(exprs) = 1 THEN exprs[1]
  ELSE [op |-> "and", tag |-> "", refs |-> <<>>, args |-> exprs]
litFalse == [op |-> "lit", tag |-> "false", refs |-> <<>>, args |-> <<>>]

\* grants.map((grant) => grant.where(expressionBuilder()))
mapWhere(grants) == [i \in 1..Len(grants) |-> grants[i].where]

\* allowGrants without the test of the grant's permission.
allowGrants_anyPermission(grants, table, statementType) ==
  SelectSeq(grants, LAMBDA grant :
    /\ (grant.schema = undefined \/ grant.schema = SchemaName(table))
    /\ grant.table = table.name)

\* allowGrants (51-57)
allowGrants(grants, table, statementType) ==
  SelectSeq(grants, LAMBDA grant :
    /\ (grant.schema = undefined \/ grant.schema = SchemaName(table))
    /\ grant.table = table.name
    /\ (grant.for = "all" \/ grant.for = statementType))

\* grantsWithWheres (64)
grantsWithWheres(grants, table, statementType) ==
  SelectSeq(allowGrants(grants, table, statementType), isGrantWithWhereClause)

\* grantsWithRestrictiveWheres (66-68)
grantsWithRestrictiveWheres(grants, table, statementType) ==
  SelectSeq(grantsWithWheres(grants, table, statementType),
            LAMBDA grant : grant.whereType = "restrictive")

\* grantsWithPermissiveWheres counting only the grants that say "permissive".
grantsWithPermissiveWheres_explicitOnly(grants, table, statementType) ==
  SelectSeq(grantsWithWheres(grants, table, statementType),
            LAMBDA grant : grant.whereType = "permissive")

\* grantsWithPermissiveWheres (71-73)
grantsWithPermissiveWheres(grants, table, statementType) ==
  SelectSeq(grantsWithWheres(grants, table, statementType),
            LAMBDA grant : grant.whereType # "restrictive")

\* permissiveEbs (90-94)
permissiveEbs(grants, table, statementType) ==
  ebOr(mapWhere(grantsWithPermissiveWheres(grants, table, statementType)))

\* guard.table (50-112); the usage context the engine passes third is not
\* among its parameters.
grantGuardTable(grants, table, statementType, tableUsageContext) ==
  IF Len(allowGrants(grants, table, statementType)) = 0 THEN DenyPlain
  ELSE IF /\ Len(grantsWithRestrictiveWheres(grants, table, statementType)) = 0
          /\ Len(grantsWithPermissiveWheres(grants, table, statementType)) = 0
  THEN AllowPlain
  ELSE IF /\ Len(grantsWithPermissiveWheres(grants, table, statementType)) = 0
          /\ Len(grantsWithRestrictiveWheres(grants, table, statementType)) > 0
  THEN AllowWith(litFalse)
  ELSE IF Len(grantsWithRestrictiveWheres(grants, table, statementType)) > 0
  THEN AllowWith(ebAnd(<<permissiveEbs(grants, table, statementType),
                         ebAnd(mapWhere(grantsWithRestrictiveWheres(grants, table, statementType)))>>))
  ELSE AllowWith(permissiveEbs(grants, table, statementType))

\* The test of grants.find asking in addition that the permission of a
\* grant that is not 'all' is the statement type of the call.
allowGrant_statementType(grant, table, column, statementType, columnUsageContext) ==
  LET rightSchemaAndTableAndColumns ==
        /\ (grant.schema = undefined \/ grant.schema = SchemaName(table))
        /\ grant.table = table.name
        /\ \/ ~grant.columns.present
           \/ \E i \in 1..Len(grant.columns.items) : grant.columns.items[i] = column
  IN IF ~rightSchemaAndTableAndColumns THEN FALSE
     ELSE IF grant.for = "all" THEN TRUE
     ELSE IF grant.for # statementType THEN FALSE
     ELSE IF /\ grant.for = StatementType.Select
             /\ columnUsageContext \in {ColumnUsageContext.ColumnInSelectOrReturning,
                                         ColumnUsageContext.ColumnInWhereOrJoin}
     THEN TRUE
     ELSE IF /\ grant.for = StatementType.Update
             /\ ColumnUsageContext.ColumnInUpdateSet = columnUsageContext
     THEN TRUE
     ELSE IF /\ grant.for = StatementType.Insert
             /\ ColumnUsageContext.ColumnInInsert = columnUsageContext
     THEN TRUE
     ELSE FALSE

\* The test of grants.find with insert and update grants covering returned
\* columns as well.
allowGrant_writeCoversReturning(grant, table, column, statementType, columnUsageContext) ==
  LET rightSchemaAndTableAndColumns ==
        /\ (grant.schema = undefined \/ grant.schema = SchemaName(table))
        /\ grant.table = table.name
        /\ \/ ~grant.columns.present
           \/ \E i \in 1..Len(grant.columns.items) : grant.columns.items[i] = column
  IN IF ~rightSchemaAndTableAndColumns THEN FALSE
     ELSE IF grant.for = "all" THEN TRUE
     ELSE IF /\ grant.for = StatementType.Select
             /\ columnUsageContext \in {ColumnUsageContext.ColumnInSelectOrReturning,
                                         ColumnUsageContext.ColumnInWhereOrJoin}
     THEN TRUE
     ELSE IF /\ grant.for \in {StatementType.Update, StatementType.Insert}
             /\ ColumnUsageContext.ColumnInSelectOrReturning = columnUsageContext
     THEN TRUE
     ELSE IF /\ grant.for = StatementType.Update
             /\ ColumnUsageContext.ColumnInUpdateSet = columnUsageContext
     THEN TRUE
     ELSE IF /\ grant.for = StatementType.Insert
             /\ ColumnUsageContext.ColumnInInsert = columnUsageContext
     THEN TRUE
     ELSE FALSE

\* The test of grants.find in guard.column (115-159)
allowGrant(grant, table, column, statementType, columnUsageContext) ==
  LET rightSchemaAndTableAndColumns ==
        /\ (grant.schema = undefined \/ grant.schema = SchemaName(table))
        /\ grant.table = table.name
        /\ \/ ~grant.columns.present
           \/ \E i \in 1..Len(grant.columns.items) : grant.columns.items[i] = column
  IN IF ~rightSchemaAndTableAndColumns THEN FALSE
     ELSE IF grant.for = "all" THEN TRUE
     ELSE IF /\ grant.for = StatementType.Select
             /\ columnUsageContext \in {ColumnUsageContext.ColumnInSelectOrReturning,
                                         ColumnUsageContext.ColumnInWhereOrJoin}
     THEN TRUE
     ELSE IF /\ grant.for = StatementType.Update
             /\ ColumnUsageContext.ColumnInUpdateSet = columnUsageContext
     THEN TRUE
     ELSE IF /\ grant.for = StatementType.Insert
             /\ ColumnUsageContext.ColumnInInsert = columnUsageContext
     THEN TRUE
     ELSE FALSE

\* guard.column looking at the first grant of the list only.
grantGuardColumn_firstGrant(grants, table, column, statementType, columnUsageContext) ==
  IF ~(/\ Len(grants) > 0
       /\ allowGrant(grants[1], table, column, statementType, columnUsageContext))
  THEN DenyPlain
  ELSE AllowPlain

\* guard.column (114-166)
grantGuardColumn(grants, table, column, statementType, columnUsageContext) ==
  IF ~(\E i \in 1..Len(grants) :
         allowGrant(grants[i], table, column, statementType, columnUsageContext))
  THEN DenyPlain
  ELSE AllowPlain

\* A guard function is given by rules: the first rule that matches the
\* arguments (idx: the rules that match) decides, and the function returns
\* Allow when none does.
FirstMatch(rules, idx) ==
  IF idx = {} THEN AllowPlain
  ELSE rules[CHOOSE i \in idx : \A j \in idx : i <= j].result

\* fullGuard.table whose default denies instead of allowing.
fullGuardTable_defaultDeny(table, statementType, tableUsageContext) ==
  IF ~guard.hasTable THEN DenyPlain
  ELSE FirstMatch(guard.table,
         {i \in 1..Len(guard.table) :
            /\ guard.table[i].table = table
            /\ guard.table[i].statementType = statementType
            /\ guard.table[i].context = tableUsageContext})

\* fullGuard: the caller's guard over the default guards.
fullGuardTable(table, statementType, tableUsageContext) ==
  IF guard.fromGrants
  THEN grantGuardTable(guard.grants, table, statementType, tableUsageContext)
  ELSE IF ~guard.hasTable THEN AllowPlain
  ELSE FirstMatch(guard.table,
         {i \in 1..Len(guard.table) :
            /\ guard.table[i].table = table
            /\ guard.table[i].statementType = statementType
            /\ guard.table[i].context = tableUsageContext})

fullGuardColumn(table, column, statementType, columnUsageContext) ==
  IF guard.fromGrants
  THEN grantGuardColumn(guard.grants, table, column, statementType, columnUsageContext)
  ELSE IF ~guard.hasColumn THEN AllowPlain
  ELSE FirstMatch(guard.column,
         {i \in 1..Len(guard.column) :
            /\ guard.column[i].table = table
            /\ column \in guard.column[i].columns
            /\ guard.column[i].statementType = statementType
            /\ guard.column[i].context = columnUsageContext})

\* The record of one guard invocation.
TableCall(table, st, ctx) ==
  [fn |-> "table", table |-> table, column |-> "", statementType |-> st, context |-> ctx]
ColumnCall(table, column, st, ctx) ==
  [fn |-> "column", table |-> table, column |-> column, statementType |-> st, context |-> ctx]

(***************************************************************************)
(* Outcomes of a handler: the value it returns or the error it throws,     *)
(* with the guard calls made up to that point.                             *)
(***************************************************************************)
Ok(v, calls) == [ok |-> TRUE, error |-> "", val |-> v, calls |-> calls]
Throw(msg, calls) == [ok |-> FALSE, error |-> msg, val |-> NoNode, calls |-> calls]

\* tiny-invariant
InvariantFailed(msg) == "Invariant failed: " \o msg

QualifiedName(table) ==
  (IF table.schema # "" THEN table.schema \o "." ELSE "") \o table.name

\* throwIfDenyWithReason without its second test: [Deny, reason] passes.
throwIfDenyWithReason_plainOnly(guardResult, coreErrorString) ==
  IF guardResult.tag = Deny /\ ~guardResult.arr THEN coreErrorString
  ELSE ""

\* throwIfDenyWithReason: the message thrown, or "" when nothing is thrown.
throwIfDenyWithReason(guardResult, coreErrorString) ==
  IF guardResult.tag = Deny /\ ~guardResult.arr THEN coreErrorString
  ELSE IF guardResult.arr /\ guardResult.tag = Deny
       THEN coreErrorString \o ": " \o guardResult.reason
  ELSE ""

(***************************************************************************)
(* The node stack, as far as the handlers look at it: isAChildOf for the   *)
(* four node types asked about, and the parent of the nearest WhereNode.   *)
(***************************************************************************)
TopStack ==
  [where |-> FALSE, join |-> FALSE, from |-> FALSE, using |-> FALSE,
   parentOfWhere |-> NoNode]

\* _topLevelHasMoreThanOneTable (699-724)
_topLevelHasMoreThanOneTable(node) ==
  IF node.kind = "UpdateQueryNode"
  THEN Ok(node.from.present /\ Len(node.from.items) > 0, <<>>)
  ELSE IF node.kind = "SelectQueryNode"
  THEN Ok(Len(node.joins) > 0, <<>>)
  ELSE IF node.kind = "DeleteQueryNode"
  THEN Ok(node.using.present /\ Len(node.using.items) > 0, <<>>)
  ELSE Throw("_topLevelHasMoreThanOneTable called with something that is not a select, update, or delete query", <<>>)

\* _getTableNodeFromTopLevelQueryNode (729-781)
_getTableNodeFromTopLevelQueryNode(node) ==
  IF node.kind = "UpdateQueryNode"
  THEN IF node.table.kind = "TableNode" THEN Ok(node.table, <<>>)
       ELSE Throw(InvariantFailed("kysely-access-control: update query must have a table"), <<>>)
  ELSE IF node.kind = "SelectQueryNode"
  THEN IF ~(node.from.present /\ Len(node.from.items) = 1)
       THEN Throw(InvariantFailed("kysely-access-control: select query must have exactly one from"), <<>>)
       ELSE IF node.from.items[1].kind # "TableNode"
       THEN Throw(InvariantFailed("kysely-access-control: select query must have a table"), <<>>)
       ELSE Ok(node.from.items[1], <<>>)
  ELSE IF node.kind = "DeleteQueryNode"
  THEN IF ~(node.from.present /\ Len(node.from.items) = 1)
       THEN Throw(InvariantFailed("kysely-access-control: delete query must have exactly one from"), <<>>)
       ELSE IF node.from.items[1].kind # "TableNode"
       THEN Throw(InvariantFailed("kysely-access-control: delete query must have a table"), <<>>)
       ELSE Ok(node.from.items[1], <<>>)
  ELSE IF node.kind = "InsertQueryNode"
  THEN Ok(TableNodeCreate(node.into), <<>>)
  ELSE Throw("_getTopLevelTableNode called with something that is not a select, update, delete, or insert query", <<>>)

\* The table a column reference in a filter belongs to (616-664).
ReferenceTableNode(node, stack) ==
  IF node.table = NoTable
  THEN IF ~stack.where
       THEN Throw("kysely-access-control: could not find table node for column reference in join", <<>>)
       ELSE LET parentOfWhere == stack.parentOfWhere
                hasJoins == _topLevelHasMoreThanOneTable(parentOfWhere)
                foundTableNode == _getTableNodeFromTopLevelQueryNode(parentOfWhere)
            IN IF parentOfWhere = NoNode
               THEN Throw(InvariantFailed("kysely-access-control: could not find parent of where node"), <<>>)
               ELSE IF ~hasJoins.ok THEN hasJoins
               ELSE IF hasJoins.val
               THEN Throw("kysely-access-control: if joins are present, each column reference in where must specify the table", <<>>)
               ELSE foundTableNode
  ELSE Ok(TableNodeCreate(node.table), <<>>)

\* transformReference asking the guard as for a projected column.
transformReference_asProjection(node, stack, calls) ==
  LET isAChildOfWhere == stack.where
      isAChildOfJoin == stack.join
      found == ReferenceTableNode(node, stack)
      tableNode == found.val
      guardResult ==
        fullGuardColumn(tableNode.table, node.column, StatementType.Select,
                        ColumnUsageContext.ColumnInSelectOrReturning)
      calls2 ==
        Append(calls, ColumnCall(tableNode.table, node.column, StatementType.Select,
                                 ColumnUsageContext.ColumnInSelectOrReturning))
      denied ==
        throwIfDenyWithReason(guardResult,
          "FILTER denied on column " \o QualifiedName(tableNode.table) \o "." \o node.column)
  IN IF ~isAChildOfWhere /\ ~isAChildOfJoin THEN Ok(node, calls)
     ELSE IF ~found.ok THEN Throw(found.error, calls)
     ELSE IF node.column = "*"
     THEN Throw(InvariantFailed("kysely-access-control: select all in filter statement is not supported"), calls)
     ELSE IF denied # "" THEN Throw(denied, calls2)
     ELSE Ok(node, calls2)

\* transformReference looking for a WhereNode ancestor only.
transformReference_whereOnly(node, stack, calls) ==
  LET isAChildOfWhere == stack.where
      isAChildOfJoin == FALSE
      found == ReferenceTableNode(node, stack)
      tableNode == found.val
      guardResult ==
        fullGuardColumn(tableNode.table, node.column, StatementType.Select,
                        ColumnUsageContext.ColumnInWhereOrJoin)
      calls2 ==
        Append(calls, ColumnCall(tableNode.table, node.column, StatementType.Select,
                                 ColumnUsageContext.ColumnInWhereOrJoin))
      denied ==
        throwIfDenyWithReason(guardResult,
          "FILTER denied on column " \o QualifiedName(tableNode.table) \o "." \o node.column)
  IN IF ~isAChildOfWhere /\ ~isAChildOfJoin THEN Ok(node, calls)
     ELSE IF ~found.ok THEN Throw(found.error, calls)
     ELSE IF node.column = "*"
     THEN Throw(InvariantFailed("kysely-access-control: select all in filter statement is not supported"), calls)
     ELSE IF denied # "" THEN Throw(denied, calls2)
     ELSE Ok(node, calls2)

\* transformReference (598-689)
transformReference(node, stack, calls) ==
  LET isAChildOfWhere == stack.where
      isAChildOfJoin == stack.join
      found == ReferenceTableNode(node, stack)
      tableNode == found.val
      guardResult ==
        fullGuardColumn(tableNode.table, node.column, StatementType.Select,
                        ColumnUsageContext.ColumnInWhereOrJoin)
      calls2 ==
        Append(calls, ColumnCall(tableNode.table, node.column, StatementType.Select,
                                 ColumnUsageContext.ColumnInWhereOrJoin))
      denied ==
        throwIfDenyWithReason(guardResult,
          "FILTER denied on column " \o QualifiedName(tableNode.table) \o "." \o node.column)
  IN IF ~isAChildOfWhere /\ ~isAChildOfJoin THEN Ok(node, calls)
     ELSE IF ~found.ok THEN Throw(found.error, calls)
     ELSE IF node.column = "*"
     THEN Throw(InvariantFailed("kysely-access-control: select all in filter statement is not supported"), calls)
     ELSE IF denied # "" THEN Throw(denied, calls2)
     ELSE Ok(node, calls2)

\* A handler's outcome r with another return value; an error stays the error.
Returning(r, v) == IF r.ok THEN [r EXCEPT !.val = v] ELSE r

\* The outcome r of transforming one more element, appended to the list of
\* transformed elements acc.
Appended(acc, r) == IF r.ok THEN Ok(Append(acc.val, r.val), r.calls) ELSE r

\* The base transformer walking the references of an expression, left to
\* right; acc is the outcome so far, and an error ends the walk.
RECURSIVE TransformReferences(_, _, _, _)
TransformReferences(refs, i, stack, acc) ==
  IF ~acc.ok \/ i > Len(refs) THEN acc
  ELSE TransformReferences(refs, i + 1, stack, transformReference(refs[i], stack, acc.calls))

\* The base transformer walking an expression: the operands of an AndNode
\* or OrNode left to right, then the references of a comparison.
RECURSIVE TransformExpression(_, _, _)
RECURSIVE TransformOperands(_, _, _, _)
TransformOperands(args, i, stack, acc) ==
  IF ~acc.ok \/ i > Len(args) THEN acc
  ELSE TransformOperands(args, i + 1, stack, TransformExpression(args[i], stack, acc))

TransformExpression(e, stack, acc) ==
  IF ~acc.ok THEN acc
  ELSE IF e.op \in {"and", "or"}
  THEN TransformOperands(e.args, 1, stack, acc)
  ELSE TransformReferences(e.refs, 1, stack, acc)

\* OperationNodeTransformer.transformWhere, as super.transformWhere calls it
\* and as transformNode reaches it with the WhereNode on the stack.
BaseTransformWhere(node, stack, acc) ==
  IF ~acc.ok \/ ~node.present THEN Returning(acc, node)
  ELSE Returning(TransformExpression(node.where, stack, acc), node)

\* _transformWhere with the operands of AndNode.create exchanged.
_transformWhere_whereFirst(guardResult, nodeWhere, stack, acc) ==
  IF ~acc.ok THEN acc
  ELSE IF guardResult = AllowPlain THEN Returning(acc, nodeWhere)
  ELSE LET defined == guardResult.arr /\ guardResult.tag = Allow /\ guardResult.pred # NoExpr
           guardWhere == WhereNodeCreate(guardResult.pred)
           newWhere ==
             IF nodeWhere.present
             THEN WhereNodeCreate(AndNodeCreate(nodeWhere.where, guardWhere.where))
             ELSE guardWhere
       IN IF ~defined
          THEN Throw(InvariantFailed("kysely-access-control: returned where must be an expression wrapper"), acc.calls)
          ELSE BaseTransformWhere(newWhere, stack, acc)

\* _transformWhere (862-890); acc is the outcome of the handler so far.
_transformWhere(guardResult, nodeWhere, stack, acc) ==
  IF ~acc.ok THEN acc
  ELSE IF guardResult = AllowPlain THEN Returning(acc, nodeWhere)
  ELSE LET defined == guardResult.arr /\ guardResult.tag = Allow /\ guardResult.pred # NoExpr
           guardWhere == WhereNodeCreate(guardResult.pred)
           newWhere ==
             IF nodeWhere.present
             THEN WhereNodeCreate(AndNodeCreate(guardWhere.where, nodeWhere.where))
             ELSE guardWhere
       IN IF ~defined
          THEN Throw(InvariantFailed("kysely-access-control: returned where must be an expression wrapper"), acc.calls)
          ELSE BaseTransformWhere(newWhere, stack, acc)

RECURSIVE SelectionsLoop(_, _, _, _, _, _, _)

\* The loop of _transformSelections asking the guard about the statement's
\* table whatever table the column is qualified with.
SelectionsLoop_ownerIgnored(selections, i, tableNode, scopedHasMoreThanOneTable, statementType, acc, calls) ==
  IF i > Len(selections) THEN Ok(acc, calls)
  ELSE
    LET selectionNode == selections[i]
        tableNodeToUseForColumn ==
          tableNode.table
        guardResult ==
          fullGuardColumn(tableNodeToUseForColumn, selectionNode.column, statementType,
                          ColumnUsageContext.ColumnInSelectOrReturning)
        calls2 ==
          Append(calls, ColumnCall(tableNodeToUseForColumn, selectionNode.column, statementType,
                                   ColumnUsageContext.ColumnInSelectOrReturning))
        denied ==
          throwIfDenyWithReason(guardResult,
            "SELECT denied on column " \o QualifiedName(tableNodeToUseForColumn)
               \o "." \o selectionNode.column)
    IN IF ~selectionNode.isRef
       THEN Throw(InvariantFailed("kysely-access-control: selection must be a reference node"), calls)
       ELSE IF selectionNode.column = "*"
       THEN Throw(InvariantFailed("kysely-access-control: .selectAll() is not supported"), calls)
       ELSE IF scopedHasMoreThanOneTable /\ selectionNode.table = NoTable
       THEN Throw(InvariantFailed("kysely-access-control: table must be specified for each column when joining - could not infer table for "
                                    \o selectionNode.column), calls)
       ELSE IF denied # "" THEN Throw(denied, calls2)
       ELSE IF guardResult.tag = Omit /\ ~guardResult.arr
       THEN SelectionsLoop(selections, i + 1, tableNode, scopedHasMoreThanOneTable,
                           statementType, acc, calls2)
       ELSE SelectionsLoop(selections, i + 1, tableNode, scopedHasMoreThanOneTable,
                           statementType, Append(acc, selectionNode), calls2)

\* The loop of _transformSelections keeping a column the guard omits.
SelectionsLoop_omitKept(selections, i, tableNode, scopedHasMoreThanOneTable, statementType, acc, calls) ==
  IF i > Len(selections) THEN Ok(acc, calls)
  ELSE
    LET selectionNode == selections[i]
        tableNodeToUseForColumn ==
          IF scopedHasMoreThanOneTable THEN selectionNode.table ELSE tableNode.table
        guardResult ==
          fullGuardColumn(tableNodeToUseForColumn, selectionNode.column, statementType,
                          ColumnUsageContext.ColumnInSelectOrReturning)
        calls2 ==
          Append(calls, ColumnCall(tableNodeToUseForColumn, selectionNode.column, statementType,
                                   ColumnUsageContext.ColumnInSelectOrReturning))
        denied ==
          throwIfDenyWithReason(guardResult,
            "SELECT denied on column " \o QualifiedName(tableNodeToUseForColumn)
               \o "." \o selectionNode.column)
    IN IF ~selectionNode.isRef
       THEN Throw(InvariantFailed("kysely-access-control: selection must be a reference node"), calls)
       ELSE IF selectionNode.column = "*"
       THEN Throw(InvariantFailed("kysely-access-control: .selectAll() is not supported"), calls)
       ELSE IF scopedHasMoreThanOneTable /\ selectionNode.table = NoTable
       THEN Throw(InvariantFailed("kysely-access-control: table must be specified for each column when joining - could not infer table for "
                                    \o selectionNode.column), calls)
       ELSE IF denied # "" THEN Throw(denied, calls2)
       ELSE SelectionsLoop(selections, i + 1, tableNode, scopedHasMoreThanOneTable,
                           statementType, Append(acc, selectionNode), calls2)

\* The loop of _transformSelections without its two invariants on select-all:
\* a wildcard is kept like an allowed column.
SelectionsLoop_selectAllKept(selections, i, tableNode, scopedHasMoreThanOneTable, statementType, acc, calls) ==
  IF i > Len(selections) THEN Ok(acc, calls)
  ELSE
    LET selectionNode == selections[i]
        tableNodeToUseForColumn ==
          IF scopedHasMoreThanOneTable THEN selectionNode.table ELSE tableNode.table
        guardResult ==
          fullGuardColumn(tableNodeToUseForColumn, selectionNode.column, statementType,
                          ColumnUsageContext.ColumnInSelectOrReturning)
        calls2 ==
          Append(calls, ColumnCall(tableNodeToUseForColumn, selectionNode.column, statementType,
                                   ColumnUsageContext.ColumnInSelectOrReturning))
        denied ==
          throwIfDenyWithReason(guardResult,
            "SELECT denied on column " \o QualifiedName(tableNodeToUseForColumn)
               \o "." \o selectionNode.column)
    IN IF ~selectionNode.isRef \/ selectionNode.column = "*"
       THEN SelectionsLoop(selections, i + 1, tableNode, scopedHasMoreThanOneTable,
                           statementType, Append(acc, selectionNode), calls)
       ELSE IF scopedHasMoreThanOneTable /\ selectionNode.table = NoTable
       THEN Throw(InvariantFailed("kysely-access-control: table must be specified for each column when joining - could not infer table for "
                                    \o selectionNode.column), calls)
       ELSE IF denied # "" THEN Throw(denied, calls2)
       ELSE IF guardResult.tag = Omit /\ ~guardResult.arr
       THEN SelectionsLoop(selections, i + 1, tableNode, scopedHasMoreThanOneTable,
                           statementType, acc, calls2)
       ELSE SelectionsLoop(selections, i + 1, tableNode, scopedHasMoreThanOneTable,
                           statementType, Append(acc, selectionNode), calls2)

\* The loop of _transformSelections leaving a denied column out of the
\* result instead of throwing.
SelectionsLoop_denySkipped(selections, i, tableNode, scopedHasMoreThanOneTable, statementType, acc, calls) ==
  IF i > Len(selections) THEN Ok(acc, calls)
  ELSE
    LET selectionNode == selections[i]
        tableNodeToUseForColumn ==
          IF scopedHasMoreThanOneTable THEN selectionNode.table ELSE tableNode.table
        guardResult ==
          fullGuardColumn(tableNodeToUseForColumn, selectionNode.column, statementType,
                          ColumnUsageContext.ColumnInSelectOrReturning)
        calls2 ==
          Append(calls, ColumnCall(tableNodeToUseForColumn, selectionNode.column, statementType,
                                   ColumnUsageContext.ColumnInSelectOrReturning))
        denied ==
          throwIfDenyWithReason(guardResult,
            "SELECT denied on column " \o QualifiedName(tableNodeToUseForColumn)
               \o "." \o selectionNode.column)
    IN IF ~selectionNode.isRef
       THEN Throw(InvariantFailed("kysely-access-control: selection must be a reference node"), calls)
       ELSE IF selectionNode.column = "*"
       THEN Throw(InvariantFailed("kysely-access-control: .selectAll() is not supported"), calls)
       ELSE IF scopedHasMoreThanOneTable /\ selectionNode.table = NoTable
       THEN Throw(InvariantFailed("kysely-access-control: table must be specified for each column when joining - could not infer table for "
                                    \o selectionNode.column), calls)
       ELSE IF denied # ""
       THEN SelectionsLoop(selections, i + 1, tableNode, scopedHasMoreThanOneTable,
                           statementType, acc, calls2)
       ELSE IF guardResult.tag = Omit /\ ~guardResult.arr
       THEN SelectionsLoop(selections, i + 1, tableNode, scopedHasMoreThanOneTable,
                           statementType, acc, calls2)
       ELSE SelectionsLoop(selections, i + 1, tableNode, scopedHasMoreThanOneTable,
                           statementType, Append(acc, selectionNode), calls2)

\* The loop of _transformSelections (806-857); acc is transformedSelections.
SelectionsLoop(selections, i, tableNode, scopedHasMoreThanOneTable, statementType, acc, calls) ==
  IF i > Len(selections) THEN Ok(acc, calls)
  ELSE
    LET selectionNode == selections[i]
        tableNodeToUseForColumn ==
          IF scopedHasMoreThanOneTable THEN selectionNode.table ELSE tableNode.table
        guardResult ==
          fullGuardColumn(tableNodeToUseForColumn, selectionNode.column, statementType,
                          ColumnUsageContext.ColumnInSelectOrReturning)
        calls2 ==
          Append(calls, ColumnCall(tableNodeToUseForColumn, selectionNode.column, statementType,
                                   ColumnUsageContext.ColumnInSelectOrReturning))
        denied ==
          throwIfDenyWithReason(guardResult,
            "SELECT denied on column " \o QualifiedName(tableNodeToUseForColumn)
               \o "." \o selectionNode.column)
    IN IF ~selectionNode.isRef
       THEN Throw(InvariantFailed("kysely-access-control: selection must be a reference node"), calls)
       ELSE IF selectionNode.column = "*"
       THEN Throw(InvariantFailed("kysely-access-control: .selectAll() is not supported"), calls)
       ELSE IF scopedHasMoreThanOneTable /\ selectionNode.table = NoTable
       THEN Throw(InvariantFailed("kysely-access-control: table must be specified for each column when joining - could not infer table for "
                                    \o selectionNode.column), calls)
       ELSE IF denied # "" THEN Throw(denied, calls2)
       ELSE IF guardResult.tag = Omit /\ ~guardResult.arr
       THEN SelectionsLoop(selections, i + 1, tableNode, scopedHasMoreThanOneTable,
                           statementType, acc, calls2)
       ELSE SelectionsLoop(selections, i + 1, tableNode, scopedHasMoreThanOneTable,
                           statementType, Append(acc, selectionNode), calls2)

\* _transformSelections guarding the projection of a nested select too.
_transformSelections_nestedGuarded(selections, tableNode, scopedHasMoreThanOneTable, statementType, stack, calls) ==
  SelectionsLoop(selections, 1, tableNode, scopedHasMoreThanOneTable,
                 statementType, <<>>, calls)

\* _transformSelections (787-860)
_transformSelections(selections, tableNode, scopedHasMoreThanOneTable, statementType, stack, calls) ==
  LET selectAllIsAllowed == stack.join \/ stack.from \/ stack.using
  IN IF selectAllIsAllowed THEN Ok(selections, calls)
     ELSE SelectionsLoop(selections, 1, tableNode, scopedHasMoreThanOneTable,
                         statementType, <<>>, calls)

\* The base transformer walking a selection list: each ReferenceNode goes
\* through transformReference.
RECURSIVE BaseTransformSelections(_, _, _, _)
BaseTransformSelections(selections, i, stack, acc) ==
  IF ~acc.ok \/ i > Len(selections) THEN acc
  ELSE IF ~selections[i].isRef THEN BaseTransformSelections(selections, i + 1, stack, acc)
  ELSE BaseTransformSelections(selections, i + 1, stack,
         transformReference(Ref(selections[i].table, selections[i].column), stack, acc.calls))

(***************************************************************************)
(* The statement handlers.  Each override does its checks and then calls   *)
(* the base transformer (super.transformX), which rebuilds the node from   *)
(* its transformed children in the order of the node's properties; the     *)
(* stack holds the node transformNode was called with.  A step of the base *)
(* transformer takes the outcome so far, whose value is the node being     *)
(* rebuilt.                                                                *)
(***************************************************************************)
RECURSIVE transformSelectQuery(_, _, _)

\* AliasNode.create around a transformed query.
Aliased(r, alias) == IF r.ok THEN Returning(r, AliasNodeCreate(r.val, alias)) ELSE r

\* A TableNode has nothing to transform; an AliasNode transforms its query.
TransformSource(src, stack, calls) ==
  IF src.kind = "AliasNode"
  THEN Aliased(transformSelectQuery(src.node, stack, calls), src.alias)
  ELSE Ok(src, calls)

\* acc: the sources transformed so far.
RECURSIVE TransformSources(_, _, _, _)
TransformSources(srcs, i, stack, acc) ==
  IF ~acc.ok \/ i > Len(srcs) THEN acc
  ELSE TransformSources(srcs, i + 1, stack,
         Appended(acc, TransformSource(srcs[i], stack, acc.calls)))

\* The derived table that carries a joined table's row-level predicate (474-480).
DerivedTable(tableNode) ==
  AliasNodeCreate(
    SelectQueryNodeCloneWithSelections(SelectQueryNodeCreateFrom(<<tableNode>>),
                                       <<SelectionCreateSelectAll>>),
    tableNode.table.name)

\* super.transformJoin, second half: the on condition; t is the outcome of
\* the table.
BaseTransformJoinOn(node, stack, t) ==
  IF ~t.ok THEN t
  ELSE Returning(BaseTransformWhere(node.on, stack, t), JoinNodeCreate(t.val, node.on))

\* super.transformJoin: the table, then the on condition, below the JoinNode.
BaseTransformJoin(node, stack, calls) ==
  BaseTransformJoinOn(node, [stack EXCEPT !.join = TRUE],
                      TransformSource(node.table, [stack EXCEPT !.join = TRUE], calls))

\* transformJoin asking the guard as for a top-level table.
transformJoin_topLevelContext(node, stack, calls) ==
  LET tableNode == node.table
      guardResult ==
        fullGuardTable(tableNode.table, StatementType.Select, TableUsageContext.TableTopLevel)
      calls2 ==
        Append(calls, TableCall(tableNode.table, StatementType.Select,
                                TableUsageContext.TableTopLevel))
      denied ==
        throwIfDenyWithReason(guardResult,
          "JOIN denied on table " \o QualifiedName(tableNode.table))
  IN IF tableNode.kind # "TableNode" THEN BaseTransformJoin(node, stack, calls)
     ELSE IF denied # "" THEN Throw(denied, calls2)
     ELSE IF guardResult = AllowPlain THEN BaseTransformJoin(node, stack, calls2)
     ELSE BaseTransformJoin([node EXCEPT !.table = DerivedTable(tableNode)], stack, calls2)

\* transformJoin without throwIfDenyWithReason: a denied table is joined.
transformJoin_denyIgnored(node, stack, calls) ==
  LET tableNode == node.table
      guardResult ==
        fullGuardTable(tableNode.table, StatementType.Select, TableUsageContext.TableInJoin)
      calls2 ==
        Append(calls, TableCall(tableNode.table, StatementType.Select,
                                TableUsageContext.TableInJoin))
  IN IF tableNode.kind # "TableNode" THEN BaseTransformJoin(node, stack, calls)
     ELSE IF guardResult.tag = Deny \/ guardResult = AllowPlain
     THEN BaseTransformJoin(node, stack, calls2)
     ELSE BaseTransformJoin([node EXCEPT !.table = DerivedTable(tableNode)], stack, calls2)

\* transformJoin returning the join over the subquery without traversing it.
transformJoin_subqueryUntraversed(node, stack, calls) ==
  LET tableNode == node.table
      guardResult ==
        fullGuardTable(tableNode.table, StatementType.Select, TableUsageContext.TableInJoin)
      calls2 ==
        Append(calls, TableCall(tableNode.table, StatementType.Select,
                                TableUsageContext.TableInJoin))
      denied ==
        throwIfDenyWithReason(guardResult,
          "JOIN denied on table " \o QualifiedName(tableNode.table))
  IN IF tableNode.kind # "TableNode" THEN BaseTransformJoin(node, stack, calls)
     ELSE IF denied # "" THEN Throw(denied, calls2)
     ELSE IF guardResult = AllowPlain THEN BaseTransformJoin(node, stack, calls2)
     ELSE Ok([node EXCEPT !.table = DerivedTable(tableNode)], calls2)

\* transformJoin (443-486)
transformJoin(node, stack, calls) ==
  LET tableNode == node.table
      guardResult ==
        fullGuardTable(tableNode.table, StatementType.Select, TableUsageContext.TableInJoin)
      calls2 ==
        Append(calls, TableCall(tableNode.table, StatementType.Select,
                                TableUsageContext.TableInJoin))
      denied ==
        throwIfDenyWithReason(guardResult,
          "JOIN denied on table " \o QualifiedName(tableNode.table))
  IN IF tableNode.kind # "TableNode" THEN BaseTransformJoin(node, stack, calls)
     ELSE IF denied # "" THEN Throw(denied, calls2)
     ELSE IF guardResult = AllowPlain THEN BaseTransformJoin(node, stack, calls2)
     ELSE BaseTransformJoin([node EXCEPT !.table = DerivedTable(tableNode)], stack, calls2)

\* acc: the joins transformed so far.
RECURSIVE TransformJoins(_, _, _, _)
TransformJoins(joins, i, stack, acc) ==
  IF ~acc.ok \/ i > Len(joins) THEN acc
  ELSE TransformJoins(joins, i + 1, stack,
         Appended(acc, transformJoin(joins[i], stack, acc.calls)))

\* The map over froms / tables in transformFrom and transformUsing (495-529,
\* 544-578): every named table is guarded before any source is traversed.
RECURSIVE GuardSources(_, _, _, _, _)
GuardSources(srcs, i, statementType, acc, calls) ==
  IF i > Len(srcs) THEN Ok(acc, calls)
  ELSE
    LET from == srcs[i]
        guardResult == fullGuardTable(from.table, statementType, TableUsageContext.TableInJoin)
        calls2 == Append(calls, TableCall(from.table, statementType, TableUsageContext.TableInJoin))
        denied ==
          throwIfDenyWithReason(guardResult, "JOIN denied on table " \o QualifiedName(from.table))
    IN IF from.kind # "TableNode"
       THEN GuardSources(srcs, i + 1, statementType, Append(acc, from), calls)
       ELSE IF denied # "" THEN Throw(denied, calls2)
       ELSE IF guardResult = AllowPlain
       THEN GuardSources(srcs, i + 1, statementType, Append(acc, from), calls2)
       ELSE GuardSources(srcs, i + 1, statementType, Append(acc, DerivedTable(from)), calls2)

\* A FromNode / UsingNode around transformed sources.
ClauseOf(r) == IF r.ok THEN Returning(r, Clause(r.val)) ELSE r

\* super.transformFrom: the froms, below the FromNode.
BaseTransformFrom(node, stack, calls) ==
  IF ~node.present THEN Ok(node, calls)
  ELSE ClauseOf(TransformSources(node.items, 1, [stack EXCEPT !.from = TRUE], Ok(<<>>, calls)))

\* super.transformFrom({...node, froms: newFroms}) (531-534)
BaseTransformNewFroms(newFroms, stack) ==
  IF ~newFroms.ok THEN newFroms
  ELSE BaseTransformFrom(Clause(newFroms.val), stack, newFroms.calls)

\* transformFrom guarding the sources of an update as a join does, with
\* statement type Select.
transformFrom_asSelect(node, parentNode, stack, calls) ==
  IF ~node.present THEN Ok(node, calls)
  ELSE IF parentNode.kind # "UpdateQueryNode" THEN BaseTransformFrom(node, stack, calls)
  ELSE BaseTransformNewFroms(GuardSources(node.items, 1, StatementType.Select, <<>>, calls),
                             stack)

\* transformFrom (488-535)
transformFrom(node, parentNode, stack, calls) ==
  IF ~node.present THEN Ok(node, calls)
  ELSE IF parentNode.kind # "UpdateQueryNode" THEN BaseTransformFrom(node, stack, calls)
  ELSE BaseTransformNewFroms(GuardSources(node.items, 1, StatementType.Update, <<>>, calls),
                             stack)

\* super.transformUsing: the tables, below the UsingNode.
BaseTransformUsing(node, stack, calls) ==
  IF ~node.present THEN Ok(node, calls)
  ELSE ClauseOf(TransformSources(node.items, 1, [stack EXCEPT !.using = TRUE], Ok(<<>>, calls)))

\* super.transformUsing({...node, tables: newTables}) (580-583)
BaseTransformNewTables(newTables, stack) ==
  IF ~newTables.ok THEN newTables
  ELSE BaseTransformUsing(Clause(newTables.val), stack, newTables.calls)

\* transformUsing (537-584)
transformUsing(node, parentNode, stack, calls) ==
  IF ~node.present THEN Ok(node, calls)
  ELSE IF parentNode.kind # "DeleteQueryNode" THEN BaseTransformUsing(node, stack, calls)
  ELSE BaseTransformNewTables(GuardSources(node.items, 1, StatementType.Delete, <<>>, calls),
                              stack)

\* transformNode on a statement's where: the WhereNode goes on the stack,
\* its parent is the statement the stack holds.
TransformWhereOf(parentNode, where, stack, acc) ==
  BaseTransformWhere(where, [stack EXCEPT !.where = TRUE, !.parentOfWhere = parentNode], acc)

\* super.transformReturning({...node, selections: transformedSelections})
BaseTransformReturning(transformedSelections, stack) ==
  IF ~transformedSelections.ok THEN transformedSelections
  ELSE Returning(BaseTransformSelections(transformedSelections.val, 1, stack,
                                         transformedSelections),
                 Clause(transformedSelections.val))

\* transformReturning passing Select as the statement type.
transformReturning_asSelect(node, parentNode, stack, calls) ==
  LET mode ==
        IF parentNode.kind = "InsertQueryNode" THEN StatementType.Insert
        ELSE IF parentNode.kind = "UpdateQueryNode" THEN StatementType.Update
        ELSE IF parentNode.kind = "DeleteQueryNode" THEN StatementType.Delete
        ELSE "undefined"
      statementType == StatementType.Select
      tableNode ==
        IF parentNode.kind = "InsertQueryNode" THEN TableNodeCreate(parentNode.into)
        ELSE IF parentNode.kind = "UpdateQueryNode" THEN parentNode.table
        ELSE parentNode.from.items[1]
  IN IF ~node.present THEN Ok(node, calls)
     ELSE IF mode = "undefined"
     THEN Throw(InvariantFailed("kysely-access-control: returning must be used with insert, update, or delete. kind was "
                                  \o parentNode.kind), calls)
     ELSE IF tableNode.kind # "TableNode"
     THEN Throw(InvariantFailed("kysely-access-control: currently only update/delete from a table"), calls)
     ELSE BaseTransformReturning(
            _transformSelections(node.items, tableNode, FALSE, statementType, stack, calls),
            stack)

\* transformReturning, were the qualifier written on a returned column the
\* table its guard call names.
transformReturning_qualifierHonoured(node, parentNode, stack, calls) ==
  LET statementType ==
        IF parentNode.kind = "InsertQueryNode" THEN StatementType.Insert
        ELSE IF parentNode.kind = "UpdateQueryNode" THEN StatementType.Update
        ELSE IF parentNode.kind = "DeleteQueryNode" THEN StatementType.Delete
        ELSE "undefined"
      tableNode ==
        IF parentNode.kind = "InsertQueryNode" THEN TableNodeCreate(parentNode.into)
        ELSE IF parentNode.kind = "UpdateQueryNode" THEN parentNode.table
        ELSE parentNode.from.items[1]
      qualified ==
        [i \in 1..Len(node.items) |->
           IF node.items[i].table = NoTable
           THEN [node.items[i] EXCEPT !.table = tableNode.table]
           ELSE node.items[i]]
  IN IF ~node.present THEN Ok(node, calls)
     ELSE IF statementType = "undefined"
     THEN Throw(InvariantFailed("kysely-access-control: returning must be used with insert, update, or delete. kind was "
                                  \o parentNode.kind), calls)
     ELSE IF tableNode.kind # "TableNode"
     THEN Throw(InvariantFailed("kysely-access-control: currently only update/delete from a table"), calls)
     ELSE BaseTransformReturning(
            _transformSelections(qualified, tableNode, TRUE, statementType, stack, calls),
            stack)

\* transformReturning (273-324)
transformReturning(node, parentNode, stack, calls) ==
  LET mode ==
        IF parentNode.kind = "InsertQueryNode" THEN StatementType.Insert
        ELSE IF parentNode.kind = "UpdateQueryNode" THEN StatementType.Update
        ELSE IF parentNode.kind = "DeleteQueryNode" THEN StatementType.Delete
        ELSE "undefined"
      statementType == mode
      tableNode ==
        IF parentNode.kind = "InsertQueryNode" THEN TableNodeCreate(parentNode.into)
        ELSE IF parentNode.kind = "UpdateQueryNode" THEN parentNode.table
        ELSE parentNode.from.items[1]
  IN IF ~node.present THEN Ok(node, calls)
     ELSE IF mode = "undefined"
     THEN Throw(InvariantFailed("kysely-access-control: returning must be used with insert, update, or delete. kind was "
                                  \o parentNode.kind), calls)
     ELSE IF tableNode.kind # "TableNode"
     THEN Throw(InvariantFailed("kysely-access-control: currently only update/delete from a table"), calls)
     ELSE BaseTransformReturning(
            _transformSelections(node.items, tableNode, FALSE, statementType, stack, calls),
            stack)

\* The node with one property replaced by its transformed value.
WithFrom(node, r) == IF r.ok THEN Returning(r, [node EXCEPT !.from = r.val]) ELSE r
WithJoins(node, r) == IF r.ok THEN Returning(r, [node EXCEPT !.joins = r.val]) ELSE r
WithUsing(node, r) == IF r.ok THEN Returning(r, [node EXCEPT !.using = r.val]) ELSE r
WithReturning(node, r) == IF r.ok THEN Returning(r, [node EXCEPT !.returning = r.val]) ELSE r

\* The steps of the base transformer on a statement: acc.val is the node.
FromStep(acc, stackNode, stack) ==
  IF ~acc.ok THEN acc
  ELSE WithFrom(acc.val, transformFrom(acc.val.from, stackNode, stack, acc.calls))

SelectionsStep(acc, stack) ==
  IF ~acc.ok THEN acc
  ELSE Returning(BaseTransformSelections(acc.val.selections.items, 1, stack, acc), acc.val)

JoinsStep(acc, stack) ==
  IF ~acc.ok THEN acc
  ELSE WithJoins(acc.val, TransformJoins(acc.val.joins, 1, stack, Ok(<<>>, acc.calls)))

UsingStep(acc, stackNode, stack) ==
  IF ~acc.ok THEN acc
  ELSE WithUsing(acc.val, transformUsing(acc.val.using, stackNode, stack, acc.calls))

\* The where step walking the filter of the statement as it was handed in
\* instead of the rewritten one.
WhereStep_inputWhere(acc, stackNode, stack) ==
  IF ~acc.ok THEN acc
  ELSE Returning(TransformWhereOf(stackNode, stackNode.where, stack, acc), acc.val)

WhereStep(acc, stackNode, stack) ==
  IF ~acc.ok THEN acc
  ELSE Returning(TransformWhereOf(stackNode, acc.val.where, stack, acc), acc.val)

ReturningStep(acc, stackNode, stack) ==
  IF ~acc.ok THEN acc
  ELSE WithReturning(acc.val, transformReturning(acc.val.returning, stackNode, stack, acc.calls))

\* super.transformSelectQuery: from, selections, joins, where.
BaseTransformSelectQuery(node, stackNode, stack, calls) ==
  WhereStep(
    JoinsStep(
      SelectionsStep(
        FromStep(Ok(node, calls), stackNode, stack),
        stack),
      stack),
    stackNode, stack)

\* transformSelectQuery 425-431: newNode, and super.transformSelectQuery.
SelectNewNode(node, transformedSelections, stack, where) ==
  IF ~where.ok THEN where
  ELSE BaseTransformSelectQuery(
         [node EXCEPT !.selections = Clause(transformedSelections), !.where = where.val],
         node, stack, where.calls)

\* transformSelectQuery 418-429: after _transformSelections.
SelectWhere(node, guardResult, stack, transformedSelections) ==
  IF ~transformedSelections.ok THEN transformedSelections
  ELSE SelectNewNode(node, transformedSelections.val, stack,
                     _transformWhere(guardResult, node.where, stack, transformedSelections))

\* transformSelectQuery (366-432)
transformSelectQuery(node, stack, calls) ==
  LET fromNode == node.from
      tableNode == fromNode.items[1]
      table == tableNode.table
      guardResult ==
        fullGuardTable(table, StatementType.Select, TableUsageContext.TableTopLevel)
      calls2 ==
        Append(calls, TableCall(table, StatementType.Select, TableUsageContext.TableTopLevel))
      denied ==
        throwIfDenyWithReason(guardResult, "SELECT denied on table " \o QualifiedName(table))
      hasJoin == Len(node.joins) > 0
  IN IF ~fromNode.present THEN BaseTransformSelectQuery(node, node, stack, calls)
     ELSE IF Len(fromNode.items) # 1
     THEN Throw(InvariantFailed("kysely-access-control: there must be exactly one from node when not joining"), calls)
     ELSE IF tableNode.kind # "TableNode"
     THEN Throw(InvariantFailed("kysely-access-control: currently only select from table/view is supported"), calls)
     ELSE IF ~node.selections.present
     THEN Throw(InvariantFailed("kysely-access-control: selections should be defined"), calls)
     ELSE IF denied # "" THEN Throw(denied, calls2)
     ELSE SelectWhere(node, guardResult, stack,
            _transformSelections(node.selections.items, tableNode, hasJoin,
                                 StatementType.Select, stack, calls2))

\* super.transformUpdateQuery: table, from, joins, where, updates, returning.
BaseTransformUpdateQuery(node, stackNode, stack, calls) ==
  ReturningStep(
    WhereStep(
      JoinsStep(
        FromStep(Ok(node, calls), stackNode, stack),
        stack),
      stackNode, stack),
    stackNode, stack)

RECURSIVE UpdatesLoop(_, _, _, _)

\* The loop over node.updates going on after an Omit.
UpdatesLoop_omitSkipped(updates, i, tableNode, calls) ==
  IF i > Len(updates) THEN Ok(updates, calls)
  ELSE
    LET column == updates[i].column
        guardResult ==
          fullGuardColumn(tableNode.table, column, StatementType.Update,
                          ColumnUsageContext.ColumnInUpdateSet)
        calls2 ==
          Append(calls, ColumnCall(tableNode.table, column, StatementType.Update,
                                   ColumnUsageContext.ColumnInUpdateSet))
        denied ==
          throwIfDenyWithReason(guardResult,
            "UPDATE denied on column " \o QualifiedName(tableNode.table) \o "." \o column)
    IN IF denied # "" THEN Throw(denied, calls2)
       ELSE UpdatesLoop(updates, i + 1, tableNode, calls2)

\* The loop over node.updates in transformUpdateQuery (173-199).
UpdatesLoop(updates, i, tableNode, calls) ==
  IF i > Len(updates) THEN Ok(updates, calls)
  ELSE
    LET column == updates[i].column
        guardResult ==
          fullGuardColumn(tableNode.table, column, StatementType.Update,
                          ColumnUsageContext.ColumnInUpdateSet)
        calls2 ==
          Append(calls, ColumnCall(tableNode.table, column, StatementType.Update,
                                   ColumnUsageContext.ColumnInUpdateSet))
        denied ==
          throwIfDenyWithReason(guardResult,
            "UPDATE denied on column " \o QualifiedName(tableNode.table) \o "." \o column)
    IN IF denied # "" THEN Throw(denied, calls2)
       ELSE IF guardResult.tag = Omit /\ ~guardResult.arr
       THEN Throw("Omit is not supported in update set: got Omit for " \o column, calls2)
       ELSE UpdatesLoop(updates, i + 1, tableNode, calls2)

\* transformUpdateQuery 201-207: newNode, and super.transformUpdateQuery.
UpdateNewNode(node, stack, where) ==
  IF ~where.ok THEN where
  ELSE BaseTransformUpdateQuery([node EXCEPT !.where = where.val], node, stack, where.calls)

\* transformUpdateQuery (151-208)
transformUpdateQuery(node, stack, calls) ==
  LET tableNode == node.table
      guardResult ==
        fullGuardTable(tableNode.table, StatementType.Update, TableUsageContext.TableTopLevel)
      calls2 ==
        Append(calls, TableCall(tableNode.table, StatementType.Update,
                                TableUsageContext.TableTopLevel))
      denied ==
        throwIfDenyWithReason(guardResult,
          "UPDATE denied on table " \o QualifiedName(tableNode.table))
  IN IF tableNode.kind # "TableNode"
     THEN Throw(InvariantFailed("kysely-access-control: only table nodes are supported for update queries"), calls)
     ELSE IF denied # "" THEN Throw(denied, calls2)
     ELSE UpdateNewNode(node, stack,
            _transformWhere(guardResult, node.where, stack,
                            UpdatesLoop(node.updates, 1, tableNode, calls2)))

\* super.transformInsertQuery: into, columns, values, returning.
BaseTransformInsertQuery(node, stackNode, stack, calls) ==
  ReturningStep(Ok(node, calls), stackNode, stack)

\* The loop over columns in transformInsertQuery (238-261).
RECURSIVE ColumnsLoop(_, _, _, _, _)
ColumnsLoop(columns, i, tableNode, acc, calls) ==
  IF i > Len(columns) THEN Ok(acc, calls)
  ELSE
    LET column == columns[i]
        guardResult ==
          fullGuardColumn(tableNode.table, column, StatementType.Insert,
                          ColumnUsageContext.ColumnInInsert)
        calls2 ==
          Append(calls, ColumnCall(tableNode.table, column, StatementType.Insert,
                                   ColumnUsageContext.ColumnInInsert))
        denied ==
          throwIfDenyWithReason(guardResult,
            "INSERT denied on column " \o QualifiedName(tableNode.table) \o "." \o column)
    IN IF denied # "" THEN Throw(denied, calls2)
       ELSE IF guardResult.tag = Omit /\ ~guardResult.arr
       THEN ColumnsLoop(columns, i + 1, tableNode, acc, calls2)
       ELSE ColumnsLoop(columns, i + 1, tableNode, Append(acc, column), calls2)

\* transformInsertQuery 263-266: super.transformInsertQuery({...node, columns}).
InsertNewNode(node, stack, transformedColumns) ==
  IF ~transformedColumns.ok THEN transformedColumns
  ELSE BaseTransformInsertQuery([node EXCEPT !.columns = Clause(transformedColumns.val)],
                                node, stack, transformedColumns.calls)

\* transformInsertQuery (216-267)
transformInsertQuery(node, stack, calls) ==
  LET tableNode == TableNodeCreate(node.into)
      columns == node.columns
      guardResult ==
        fullGuardTable(tableNode.table, StatementType.Insert, TableUsageContext.TableTopLevel)
      calls2 ==
        Append(calls, TableCall(tableNode.table, StatementType.Insert,
                                TableUsageContext.TableTopLevel))
      denied ==
        throwIfDenyWithReason(guardResult,
          "INSERT denied on table " \o QualifiedName(tableNode.table))
  IN IF denied # "" THEN Throw(denied, calls2)
     ELSE IF ~columns.present THEN BaseTransformInsertQuery(node, node, stack, calls2)
     ELSE InsertNewNode(node, stack, ColumnsLoop(columns.items, 1, tableNode, <<>>, calls2))

\* super.transformDeleteQuery: from, using, joins, where, returning.
BaseTransformDeleteQuery(node, stackNode, stack, calls) ==
  ReturningStep(
    WhereStep(
      JoinsStep(
        UsingStep(
          FromStep(Ok(node, calls), stackNode, stack),
          stackNode, stack),
        stack),
      stackNode, stack),
    stackNode, stack)

\* transformDeleteQuery splicing the guard's predicate as an update does.
transformDeleteQuery_withPredicate(node, stack, calls) ==
  LET tableNode == node.from.items[1]
      guardResult ==
        fullGuardTable(tableNode.table, StatementType.Delete, TableUsageContext.TableTopLevel)
      calls2 ==
        Append(calls, TableCall(tableNode.table, StatementType.Delete,
                                TableUsageContext.TableTopLevel))
      denied ==
        throwIfDenyWithReason(guardResult,
          "DELETE denied on table " \o QualifiedName(tableNode.table))
      where == _transformWhere(guardResult, node.where, stack, Ok(node, calls2))
  IN IF Len(node.from.items) # 1
     THEN Throw(InvariantFailed("kysely-access-control: can only delete from one table at a time"), calls)
     ELSE IF tableNode.kind # "TableNode"
     THEN Throw(InvariantFailed("kysely-access-control: can only delete from tables"), calls)
     ELSE IF denied # "" THEN Throw(denied, calls2)
     ELSE IF ~where.ok THEN where
     ELSE BaseTransformDeleteQuery([node EXCEPT !.where = where.val], node, stack, where.calls)

\* transformDeleteQuery (330-359)
transformDeleteQuery(node, stack, calls) ==
  LET tableNode == node.from.items[1]
      guardResult ==
        fullGuardTable(tableNode.table, StatementType.Delete, TableUsageContext.TableTopLevel)
      calls2 ==
        Append(calls, TableCall(tableNode.table, StatementType.Delete,
                                TableUsageContext.TableTopLevel))
      denied ==
        throwIfDenyWithReason(guardResult,
          "DELETE denied on table " \o QualifiedName(tableNode.table))
  IN IF Len(node.from.items) # 1
     THEN Throw(InvariantFailed("kysely-access-control: can only delete from one table at a time"), calls)
     ELSE IF tableNode.kind # "TableNode"
     THEN Throw(InvariantFailed("kysely-access-control: can only delete from tables"), calls)
     ELSE IF denied # "" THEN Throw(denied, calls2)
     ELSE BaseTransformDeleteQuery(node, node, stack, calls2)

\* The base transformer on a MergeQueryNode, which the Transformer does not
\* override: of what is modelled it reaches the returning clause.
BaseTransformMergeQuery(node, stack, calls) ==
  ReturningStep(Ok(node, calls), node, stack)

\* transformNode on a root node
transformNode(node) ==
  IF node.kind = "SelectQueryNode" THEN transformSelectQuery(node, TopStack, <<>>)
  ELSE IF node.kind = "InsertQueryNode" THEN transformInsertQuery(node, TopStack, <<>>)
  ELSE IF node.kind = "UpdateQueryNode" THEN transformUpdateQuery(node, TopStack, <<>>)
  ELSE IF node.kind = "DeleteQueryNode" THEN transformDeleteQuery(node, TopStack, <<>>)
  ELSE BaseTransformMergeQuery(node, TopStack, <<>>)

(***************************************************************************)
(* The guards a caller may supply.                                         *)
(***************************************************************************)
\* Row-level predicates of a table: one that qualifies its column, one that
\* does not.
Predicates(t) == {Atom("P", <<Ref(t, "name")>>), Atom("P", <<Ref(NoTable, "name")>>)}

TableRules ==
  {[table |-> t, statementType |-> st, context |-> cx, result |-> res] :
     t \in Tables, st \in StatementTypes, cx \in TableUsageContexts,
     res \in {DenyPlain, DenyWith("no access")}}
  \cup
  UNION {{[table |-> t, statementType |-> st, context |-> cx, result |-> AllowWith(p)] :
            st \in StatementTypes, cx \in TableUsageContexts, p \in Predicates(t)} :
         t \in Tables}

ColumnRules ==
  {[table |-> t, columns |-> cs, statementType |-> st, context |-> cx, result |-> res] :
     t \in Tables, cs \in (SUBSET Columns) \ {{}}, st \in StatementTypes,
     cx \in ColumnUsageContexts, res \in {OmitPlain, DenyPlain, DenyWith("secret")}}

GuardOf(hasTable, tableRules, hasColumn, columnRules) ==
  [hasTable |-> hasTable, table |-> tableRules,
   hasColumn |-> hasColumn, column |-> columnRules,
   fromGrants |-> FALSE, grants |-> <<>>]

\* The guard createKyselyGrantGuard(grants) returns: both functions, given
\* by the grants.
GrantGuardOf(grants) ==
  [hasTable |-> TRUE, table |-> <<>>,
   hasColumn |-> TRUE, column |-> <<>>,
   fromGrants |-> TRUE, grants |-> grants]

\* createAccessControlPlugin({}): both guards are the defaults.
DefaultGuard == GuardOf(FALSE, <<>>, FALSE, <<>>)

\* A row-level predicate on a top-level table together with a column rule
\* for filters.
MixedGuards ==
  {GuardOf(TRUE, <<tr>>, TRUE, <<cr>>) :
     tr \in {r \in TableRules : /\ r.result.tag = Allow
                                /\ r.context = TableUsageContext.TableTopLevel
                                /\ r.statementType \in {StatementType.Select, StatementType.Update}
                                /\ r.table = PersonTable},
     cr \in {r \in ColumnRules : /\ r.context = ColumnUsageContext.ColumnInWhereOrJoin
                                 /\ r.statementType = StatementType.Select
                                 /\ r.table = PersonTable
                                 /\ r.columns = {"name"}
                                 /\ r.result \in {DenyPlain, OmitPlain}}}

\* A table guard that looks at the table only: the same row-level predicate
\* for every statement type and usage context.
TableOnlyGuards ==
  UNION {{GuardOf(TRUE,
                  <<[table |-> t, statementType |-> StatementType.Select,
                     context |-> TableUsageContext.TableTopLevel, result |-> AllowWith(p)],
                    [table |-> t, statementType |-> StatementType.Select,
                     context |-> TableUsageContext.TableInJoin, result |-> AllowWith(p)],
                    [table |-> t, statementType |-> StatementType.Update,
                     context |-> TableUsageContext.TableTopLevel, result |-> AllowWith(p)],
                    [table |-> t, statementType |-> StatementType.Update,
                     context |-> TableUsageContext.TableInJoin, result |-> AllowWith(p)],
                    [table |-> t, statementType |-> StatementType.Delete,
                     context |-> TableUsageContext.TableTopLevel, result |-> AllowWith(p)],
                    [table |-> t, statementType |-> StatementType.Delete,
                     context |-> TableUsageContext.TableInJoin, result |-> AllowWith(p)],
                    [table |-> t, statementType |-> StatementType.Insert,
                     context |-> TableUsageContext.TableTopLevel, result |-> AllowWith(p)]>>,
                  FALSE, <<>>) : p \in Predicates(t)} : t \in Tables}

\* A table guard that returns a predicate for a table as a secondary source
\* and another answer for the same table as the target of a select.
JoinThenTopGuards ==
  UNION {{GuardOf(TRUE,
                  <<[table |-> t, statementType |-> st,
                     context |-> TableUsageContext.TableInJoin, result |-> AllowWith(p)],
                    [table |-> t, statementType |-> StatementType.Select,
                     context |-> TableUsageContext.TableTopLevel, result |-> second]>>,
                  FALSE, <<>>) :
            st \in {StatementType.Select, StatementType.Update, StatementType.Delete},
            p \in Predicates(t),
            second \in {DenyPlain, DenyWith("secret"), AllowWith(Atom("Q", <<Ref(t, "id")>>))}} :
         t \in Tables}

Guards ==
  {DefaultGuard, GuardOf(TRUE, <<>>, TRUE, <<>>)}
  \cup {GuardOf(TRUE, <<tr>>, FALSE, <<>>) : tr \in TableRules}
  \cup {GuardOf(FALSE, <<>>, TRUE, <<cr>>) : cr \in ColumnRules}
  \cup MixedGuards
  \cup TableOnlyGuards
  \cup JoinThenTopGuards

(***************************************************************************)
(* The statements a query builder may hand to the plugin.                  *)
(***************************************************************************)
OtherTable(t) == IF t = PersonTable THEN RsvpTable ELSE PersonTable

\* The table a query builder writes in front of a column, with the schema
\* the from clause names it with.
Qualifier(t) == t

SeqsUpTo(S, n) == UNION {[1..k -> S] : k \in 0..n}

\* Selection items of a statement on table t alone.
SelectionItems(t) ==
  {Selection(Qualifier(t), c) : c \in Columns}
  \cup {Selection(NoTable, "name"), Selection(Qualifier(t), "*"), SelectionCreateSelectAll}

SelectionLists(t) == SeqsUpTo(SelectionItems(t), MaxSelections)

Wheres(t) ==
  {NoWhere,
   WhereNodeCreate(Atom("W", <<Ref(NoTable, "id")>>)),
   WhereNodeCreate(Atom("W", <<Ref(Qualifier(t), "name")>>))}

\* A subquery a caller joins: select id from t where name ...
SubQuery(t) ==
  [EmptyQuery("SelectQueryNode") EXCEPT
     !.from = Clause(<<TableNodeCreate(t)>>),
     !.selections = Clause(<<Selection(Qualifier(t), "id")>>),
     !.where = WhereNodeCreate(Atom("W", <<Ref(NoTable, "name")>>))]

\* Secondary sources: a named table or an aliased subquery.
Sources(t) == {TableNodeCreate(t), AliasNodeCreate(SubQuery(t), "sub")}

\* Join conditions on a joined table t: on a column of t, on a column of
\* each side, and on a column left unqualified.
Ons(t) ==
  {WhereNodeCreate(Atom("ON", <<Ref(Qualifier(t), "id")>>)),
   WhereNodeCreate(Atom("ON", <<Ref(Qualifier(t), "id"), Ref(Qualifier(OtherTable(t)), "name")>>)),
   WhereNodeCreate(Atom("ON", <<Ref(NoTable, "id")>>))}

Joins(t) == {JoinNodeCreate(src, on) : src \in Sources(t), on \in Ons(t)}

SelectQueries ==
  {EmptyQuery("SelectQueryNode"),
   [EmptyQuery("SelectQueryNode") EXCEPT !.selections = Clause(<<SelectionCreateSelectAll>>)]}
  \cup
  UNION {{[EmptyQuery("SelectQueryNode") EXCEPT
             !.from = Clause(<<TableNodeCreate(t)>>),
             !.selections = Clause(sels),
             !.where = w] :
            sels \in SelectionLists(t), w \in Wheres(t)} : t \in Tables}
  \cup
  UNION {{[EmptyQuery("SelectQueryNode") EXCEPT
             !.from = Clause(<<TableNodeCreate(t)>>),
             !.selections = Clause(sels),
             !.joins = <<j>>,
             !.where = w] :
            sels \in {<<Selection(Qualifier(t), "id")>>,
                      <<Selection(Qualifier(t), "id"), Selection(Qualifier(OtherTable(t)), "name")>>,
                      <<Selection(NoTable, "name")>>},
            j \in Joins(OtherTable(t)),
            w \in Wheres(t)} : t \in Tables}

Returnings(t) ==
  {NoClause,
   Clause(<<Selection(Qualifier(t), "id")>>),
   Clause(<<Selection(Qualifier(t), "id"), Selection(NoTable, "name")>>),
   Clause(<<Selection(Qualifier(OtherTable(t)), "name")>>),
   Clause(<<Selection(Qualifier(t), "*")>>)}

ColumnUpdate(c) == [column |-> c, value |-> "v_" \o c]

UpdateQueries ==
  UNION {{[EmptyQuery("UpdateQueryNode") EXCEPT
             !.table = TableNodeCreate(t),
             !.updates = ups,
             !.from = f,
             !.where = w,
             !.returning = ret] :
            ups \in {<<ColumnUpdate("id")>>, <<ColumnUpdate("name")>>,
                     <<ColumnUpdate("id"), ColumnUpdate("name")>>},
            f \in {NoClause, Clause(<<TableNodeCreate(OtherTable(t))>>)},
            w \in Wheres(t),
            ret \in Returnings(t)} : t \in Tables}
  \cup
  \* update t inner join other on other.id ... set id = ... where ...
  UNION {{[EmptyQuery("UpdateQueryNode") EXCEPT
             !.table = TableNodeCreate(t),
             !.updates = <<ColumnUpdate("id")>>,
             !.joins = <<JoinNodeCreate(TableNodeCreate(OtherTable(t)),
                                        WhereNodeCreate(Atom("ON", <<Ref(Qualifier(OtherTable(t)), "id")>>)))>>,
             !.where = w] :
            w \in Wheres(t)} : t \in Tables}

\* The value rows of an insert: row r holds one value per listed column.
ValueRows(cols, n) == [r \in 1..n |-> [i \in 1..Len(cols) |-> [row |-> r, for |-> cols[i]]]]

InsertQueries ==
  UNION {{[EmptyQuery("InsertQueryNode") EXCEPT
             !.into = t,
             !.columns = cols,
             !.values = ValueRows(cols.items, n),
             !.returning = ret] :
            cols \in {NoClause, Clause(<<"id">>), Clause(<<"id", "name">>)},
            n \in 1..MaxRows,
            ret \in Returnings(t) \ {Clause(<<Selection(Qualifier(OtherTable(t)), "name")>>)}} :
         t \in Tables}

DeleteQueries ==
  UNION {{[EmptyQuery("DeleteQueryNode") EXCEPT
             !.from = Clause(<<TableNodeCreate(t)>>),
             !.using = u,
             !.where = w,
             !.returning = ret] :
            u \in {NoClause, Clause(<<TableNodeCreate(OtherTable(t))>>)},
            w \in Wheres(t),
            ret \in Returnings(t)} : t \in Tables}
  \cup
  {[EmptyQuery("DeleteQueryNode") EXCEPT
      !.from = Clause(<<TableNodeCreate(PersonTable), TableNodeCreate(RsvpTable)>>)]}

MergeQueries ==
  {[EmptyQuery("MergeQueryNode") EXCEPT
      !.into = t, !.returning = Clause(<<Selection(Qualifier(t), "id")>>)] : t \in Tables}

\* Subqueries used as a secondary source: one that projects a wildcard and
\* a column, and one that itself joins a subquery.
SubQueryAll(t) ==
  [EmptyQuery("SelectQueryNode") EXCEPT
     !.from = Clause(<<TableNodeCreate(t)>>),
     !.selections = Clause(<<SelectionCreateSelectAll, Selection(Qualifier(t), "name")>>)]

SubQueryJoining(t) ==
  [EmptyQuery("SelectQueryNode") EXCEPT
     !.from = Clause(<<TableNodeCreate(t)>>),
     !.selections = Clause(<<Selection(Qualifier(t), "id")>>),
     !.joins = <<JoinNodeCreate(AliasNodeCreate(SubQueryAll(OtherTable(t)), "inner"),
                                WhereNodeCreate(Atom("ON", <<Ref(Qualifier(t), "id")>>)))>>]

NestedSources(t) ==
  {AliasNodeCreate(q, "sub") : q \in {SubQuery(t), SubQueryAll(t), SubQueryJoining(t)}}

\* A select joining, an update reading from and a delete using a subquery.
NestedQueries ==
  UNION {{[EmptyQuery("SelectQueryNode") EXCEPT
             !.from = Clause(<<TableNodeCreate(t)>>),
             !.selections = Clause(<<Selection(Qualifier(t), "id")>>),
             !.joins = <<JoinNodeCreate(src, WhereNodeCreate(Atom("ON", <<Ref(Qualifier(t), "id")>>)))>>] :
            src \in NestedSources(OtherTable(t))} : t \in Tables}
  \cup
  UNION {{[EmptyQuery("UpdateQueryNode") EXCEPT
             !.table = TableNodeCreate(t),
             !.updates = <<ColumnUpdate("id")>>,
             !.from = Clause(<<src>>),
             !.returning = Clause(<<Selection(Qualifier(t), "id")>>)] :
            src \in NestedSources(OtherTable(t))} : t \in Tables}
  \cup
  UNION {{[EmptyQuery("DeleteQueryNode") EXCEPT
             !.from = Clause(<<TableNodeCreate(t)>>),
             !.using = Clause(<<src>>),
             !.returning = Clause(<<Selection(Qualifier(t), "id")>>)] :
            src \in NestedSources(OtherTable(t))} : t \in Tables}

Queries ==
  SelectQueries \cup InsertQueries \cup UpdateQueries \cup DeleteQueries \cup MergeQueries
    \cup NestedQueries

(***************************************************************************)
(* The plugin.                                                             *)
(***************************************************************************)
NoOutput == [ok |-> FALSE, error |-> "", val |-> NoNode, calls |-> <<>>]

Init ==
  /\ guard = DefaultGuard
  /\ pc = "init"
  /\ input = NoNode
  /\ output = NoOutput

\* createAccessControlPlugin (115-131, 906)
createAccessControlPlugin(g) ==
  /\ pc = "init"
  /\ guard' = g
  /\ pc' = "ready"
  /\ UNCHANGED <<input, output>>

\* plugin.transformQuery (894-897)
transformQuery(node) ==
  /\ pc = "ready"
  /\ input' = node
  /\ output' = transformNode(node)
  /\ pc' = "done"
  /\ UNCHANGED guard

Next ==
  \/ \E g \in Guards : createAccessControlPlugin(g)
  \/ \E node \in Queries : transformQuery(node)

Spec == Init /\ [][Next]_vars

Transformed == pc = "done"

(***************************************************************************)
(* Vocabulary of the properties.                                           *)
(***************************************************************************)
IsStatement(node) ==
  node.kind \in {"SelectQueryNode", "InsertQueryNode", "UpdateQueryNode", "DeleteQueryNode"}

\* The statement has the one named target table its handler asks for.
HasTarget(node) ==
  \/ node.kind = "SelectQueryNode" /\ node.from.present /\ Len(node.from.items) = 1
       /\ node.from.items[1].kind = "TableNode" /\ node.selections.present
  \/ node.kind = "UpdateQueryNode" /\ node.table.kind = "TableNode"
  \/ node.kind = "InsertQueryNode"
  \/ node.kind = "DeleteQueryNode" /\ Len(node.from.items) = 1
       /\ node.from.items[1].kind = "TableNode"

TargetOf(node) ==
  IF node.kind = "UpdateQueryNode" THEN node.table.table
  ELSE IF node.kind = "InsertQueryNode" THEN node.into
  ELSE node.from.items[1].table

TypeOf(node) ==
  IF node.kind = "SelectQueryNode" THEN StatementType.Select
  ELSE IF node.kind = "InsertQueryNode" THEN StatementType.Insert
  ELSE IF node.kind = "UpdateQueryNode" THEN StatementType.Update
  ELSE StatementType.Delete

UpperCase(st) ==
  IF st = "select" THEN "SELECT"
  ELSE IF st = "insert" THEN "INSERT"
  ELSE IF st = "update" THEN "UPDATE"
  ELSE "DELETE"

\* <schema.>name, written out per table.
NameOf(t) == IF t = PersonTable THEN "person" ELSE "public.rsvp"

ReasonSuffix(r) == IF r.arr THEN ": " \o r.reason ELSE ""

TableDeniedMessage(op, t, r) == op \o " denied on table " \o NameOf(t) \o ReasonSuffix(r)

ColumnDeniedMessage(op, t, c, r) ==
  op \o " denied on column " \o NameOf(t) \o "." \o c \o ReasonSuffix(r)

DenyResults == {DenyPlain, DenyWith("no access"), DenyWith("secret")}

\* Every message of a table denial / of any authorization denial.
TableDenials ==
  {TableDeniedMessage(op, t, r) :
     op \in {"SELECT", "INSERT", "UPDATE", "DELETE", "JOIN"}, t \in Tables, r \in DenyResults}

ColumnDenials ==
  {ColumnDeniedMessage(op, t, c, r) :
     op \in {"SELECT", "INSERT", "UPDATE", "FILTER"}, t \in Tables, c \in Columns,
     r \in DenyResults}

TopLevelResult(node) ==
  fullGuardTable(TargetOf(node), TypeOf(node), TableUsageContext.TableTopLevel)

ColumnCalls(calls) == SelectSeq(calls, LAMBDA c : c.fn = "column")

(***************************************************************************)
(* C1: when the table guard returns Deny (with or without a reason) for    *)
(* the target table of a Select, Insert, Update or Delete at top level,    *)
(* the transformation throws "<TYPE> denied on table <schema.>name", with  *)
(* ": <reason>" appended when there is one, and returns no node; when the  *)
(* guard returns Allow for the statement's own type the statement is not   *)
(* rejected with that denial, whatever the guard says for other types.     *)
(***************************************************************************)
C1_TopLevelDeny ==
  (Transformed /\ IsStatement(input) /\ HasTarget(input)) =>
    LET r == TopLevelResult(input)
        msgs == {TableDeniedMessage(UpperCase(TypeOf(input)), TargetOf(input), d) :
                   d \in DenyResults}
    IN /\ r.tag = Deny =>
            /\ ~output.ok
            /\ output.error = TableDeniedMessage(UpperCase(TypeOf(input)), TargetOf(input), r)
            /\ output.val = NoNode
       /\ r.tag = Allow => output.error \notin msgs

\* A delete on a table is denied with a reason ...
C1_Witness ==
  /\ Transformed
  /\ input.kind = "DeleteQueryNode" /\ HasTarget(input)
  /\ TopLevelResult(input) = DenyWith("no access")
  /\ output.error = "DELETE denied on table public.rsvp: no access"

\* ... and a select on a table whose updates are denied still transforms.
C1_WitnessOtherType ==
  /\ Transformed
  /\ input.kind = "SelectQueryNode" /\ HasTarget(input)
  /\ fullGuardTable(TargetOf(input), StatementType.Update,
                    TableUsageContext.TableTopLevel).tag = Deny
  /\ output.ok

(***************************************************************************)
(* Further vocabulary: the tables a statement touches beside its target,   *)
(* its projection list, and the statements the plugin supports.            *)
(***************************************************************************)
\* The guard denies a secondary source of a statement of type st: a named
\* table in the join context, or as the table of the subquery that replaces
\* it when the guard gives it a predicate there; a joined subquery's table
\* at its top level.
SourceDenied(src, st) ==
  IF src.kind = "TableNode"
  THEN \/ fullGuardTable(src.table, st, TableUsageContext.TableInJoin).tag = Deny
       \/ /\ fullGuardTable(src.table, st, TableUsageContext.TableInJoin).arr
          /\ fullGuardTable(src.table, StatementType.Select,
                            TableUsageContext.TableTopLevel).tag = Deny
  ELSE /\ src.node.from.present
       /\ fullGuardTable(src.node.from.items[1].table, StatementType.Select,
                         TableUsageContext.TableTopLevel).tag = Deny

\* The sources of an update's from clause or a delete's using clause, the
\* sources a statement joins, and both in the order they are traversed.
FromSources(node) ==
  IF node.kind = "UpdateQueryNode" /\ node.from.present THEN node.from.items
  ELSE IF node.kind = "DeleteQueryNode" /\ node.using.present THEN node.using.items
  ELSE <<>>

JoinSources(node) == [i \in 1..Len(node.joins) |-> node.joins[i].table]

SecondarySources(node) == FromSources(node) \o JoinSources(node)

\* The statement type the guard is given for the i-th secondary source: the
\* statement's for a from / using source, select for a join.
SourceType(node, i) ==
  IF i <= Len(FromSources(node)) THEN TypeOf(node) ELSE StatementType.Select

\* The sources the plugin counts when it decides whether an unqualified
\* column can be resolved: a select's joins, an update's from clause, a
\* delete's using clause.
CountedSources(node) ==
  IF node.kind = "SelectQueryNode" THEN JoinSources(node) ELSE FromSources(node)

TargetDenied(node) == TopLevelResult(node).tag = Deny

SecondaryDenied(node) ==
  \E i \in 1..Len(SecondarySources(node)) :
    SourceDenied(SecondarySources(node)[i], SourceType(node, i))

TouchesDenied(node) == TargetDenied(node) \/ SecondaryDenied(node)

InSelectOrReturning(calls) ==
  SelectSeq(calls, LAMBDA c : c.context = ColumnUsageContext.ColumnInSelectOrReturning)

\* The projection list of a statement: the selections of a select, the
\* returning clause of the others.
Projection(node) ==
  IF node.kind = "SelectQueryNode" THEN node.selections ELSE node.returning

Joining(node) == node.kind = "SelectQueryNode" /\ Len(node.joins) > 0

\* The table that owns a projected column: the one it is qualified with
\* when the select joins, the statement's target otherwise.
Owner(node, item) == IF Joining(node) THEN item.table ELSE TargetOf(node)

ProjectionResult(node, item) ==
  fullGuardColumn(Owner(node, item), item.column, TypeOf(node), ColumnUsageContext.ColumnInSelectOrReturning)

ProjectionCall(node, item) ==
  [fn |-> "column", table |-> Owner(node, item), column |-> item.column,
   statementType |-> TypeOf(node), context |-> ColumnUsageContext.ColumnInSelectOrReturning]

IsColumn(item) == item.isRef /\ item.column # "*"

\* A statement with a target whose projection names columns only, each
\* qualified when the select joins.
ProperProjection(node) ==
  /\ IsStatement(node) /\ HasTarget(node)
  /\ Projection(node).present
  /\ \A i \in 1..Len(Projection(node).items) :
       /\ IsColumn(Projection(node).items[i])
       /\ Joining(node) => Projection(node).items[i].table # NoTable

DeniedItems(node) ==
  {i \in 1..Len(Projection(node).items) :
     ProjectionResult(node, Projection(node).items[i]).tag = Deny}

FirstOf(S) == CHOOSE i \in S : \A j \in S : i <= j

KeptItems(node) ==
  SelectSeq(Projection(node).items, LAMBDA item : ProjectionResult(node, item).tag # Omit)

RECURSIVE RefsOf(_)
RefsOf(e) == IF e.op = "and" THEN RefsOf(e.args[1]) \o RefsOf(e.args[2]) ELSE e.refs

FilterRefs(where) == IF where.present THEN RefsOf(where.where) ELSE <<>>

AllQualified(refs) == \A i \in 1..Len(refs) : refs[i].table # NoTable /\ refs[i].column # "*"

\* A subquery used as a source: one named table, projected columns
\* qualified, a filter that may leave its columns unqualified when the
\* subquery joins nothing, and joins of supported sources on qualified
\* columns.
RECURSIVE SupportedSubQuery(_)
SupportedSubQuery(q) ==
  /\ q.kind = "SelectQueryNode" /\ HasTarget(q)
  /\ \A j \in 1..Len(q.joins) :
       /\ q.joins[j].table.kind = "AliasNode" => SupportedSubQuery(q.joins[j].table.node)
       /\ AllQualified(FilterRefs(q.joins[j].on))
  /\ \A i \in 1..Len(q.selections.items) :
       q.selections.items[i].isRef =>
         /\ q.selections.items[i].table # NoTable
         /\ q.selections.items[i].column # "*"
  /\ \A i \in 1..Len(FilterRefs(q.where)) :
       /\ FilterRefs(q.where)[i].column # "*"
       /\ FilterRefs(q.where)[i].table = NoTable => q.joins = <<>>

SupportedSource(src) == src.kind = "TableNode" \/ SupportedSubQuery(src.node)

\* The statements the plugin transforms when nothing is denied: every
\* construct it has an invariant or an error for is absent.
WellFormed(node) ==
  /\ \A i \in 1..Len(SecondarySources(node)) : SupportedSource(SecondarySources(node)[i])
  /\ \A i \in 1..Len(FilterRefs(node.where)) :
       /\ FilterRefs(node.where)[i].column # "*"
       /\ FilterRefs(node.where)[i].table = NoTable =>
            /\ CountedSources(node) = <<>>
            /\ node.kind = "SelectQueryNode" => node.from.present
  /\ \A i \in 1..Len(node.joins) : AllQualified(FilterRefs(node.joins[i].on))
  /\ \/ node.kind = "SelectQueryNode" /\ ~node.from.present
     \/ node.kind = "SelectQueryNode" /\ ProperProjection(node)
     \/ /\ node.kind \in {"InsertQueryNode", "UpdateQueryNode", "DeleteQueryNode"}
        /\ HasTarget(node)
        /\ node.returning.present =>
             \A i \in 1..Len(node.returning.items) : IsColumn(node.returning.items[i])
     \/ node.kind = "MergeQueryNode" /\ ~node.returning.present

AllAllow == guard.table = <<>> /\ guard.column = <<>>

\* The guard's only rules are column rules for projections and returning
\* clauses.
OnlyProjectionRules ==
  /\ guard.table = <<>> /\ guard.column # <<>>
  /\ \A i \in 1..Len(guard.column) : guard.column[i].context = ColumnUsageContext.ColumnInSelectOrReturning

(***************************************************************************)
(* C2, as stated: a statement touching a table the guard denies, as target *)
(* or as join / from / using source, fails with a table denial and the     *)
(* column guard has not been called before the denial is raised.           *)
(***************************************************************************)
C2_Original ==
  (Transformed /\ IsStatement(input) /\ HasTarget(input) /\ TouchesDenied(input)) =>
    /\ ~output.ok
    /\ output.error \in TableDenials
    /\ ColumnCalls(output.calls) = <<>>

(***************************************************************************)
(* C2, amended: a statement touching a table the guard denies always       *)
(* fails and returns no node; when the denied table is the statement's     *)
(* target, the failure is the table denial and the only guard call made is *)
(* the table guard's call on the target, so no column was inspected.       *)
(***************************************************************************)
C2_DeniedTableRejected ==
  (Transformed /\ IsStatement(input) /\ HasTarget(input)) =>
    /\ TouchesDenied(input) => ~output.ok /\ output.val = NoNode
    /\ TargetDenied(input) =>
         /\ output.error \in TableDenials
         /\ output.calls =
              <<[fn |-> "table", table |-> TargetOf(input), column |-> "",
                 statementType |-> TypeOf(input), context |-> TableUsageContext.TableTopLevel]>>

\* A select joins a denied table: the projected column is inspected before
\* the join's denial is raised.
C2_Witness ==
  /\ Transformed
  /\ input.kind = "SelectQueryNode" /\ HasTarget(input)
  /\ ~TargetDenied(input) /\ SecondaryDenied(input)
  /\ output.error = "JOIN denied on table public.rsvp"
  /\ ColumnCalls(output.calls) # <<>>

(***************************************************************************)
(* C3: in a top-level select on an allowed table whose projection names    *)
(* columns, the column guard is called for each projected column in order  *)
(* with (owning table, column, select, ColumnInSelectOrReturning); the     *)
(* first column it denies ends the transformation with "SELECT denied on   *)
(* column <schema.>table.column" (and the reason, if any) and no node;     *)
(* when it allows every column the projection list is unchanged.           *)
(***************************************************************************)
C3_SelectProjection ==
  (Transformed /\ input.kind = "SelectQueryNode" /\ ProperProjection(input)
     /\ TopLevelResult(input).tag = Allow) =>
    LET items == input.selections.items
        expected == [i \in 1..Len(items) |-> ProjectionCall(input, items[i])]
        denied == DeniedItems(input)
    IN IF denied # {}
       THEN LET k == FirstOf(denied)
            IN /\ ~output.ok /\ output.val = NoNode
               /\ output.error =
                    ColumnDeniedMessage("SELECT", Owner(input, items[k]), items[k].column,
                                        ProjectionResult(input, items[k]))
               /\ InSelectOrReturning(output.calls) = SubSeq(expected, 1, k)
       ELSE /\ InSelectOrReturning(output.calls) = expected
            /\ (output.ok /\ \A i \in 1..Len(items) :
                                ProjectionResult(input, items[i]).tag = Allow)
                 => output.val.selections = input.selections

\* A select that joins asks about a column of the joined table and is
\* denied it.
C3_Witness ==
  /\ Transformed
  /\ input.kind = "SelectQueryNode" /\ ProperProjection(input) /\ Joining(input)
  /\ Len(input.selections.items) = 2
  /\ output.error = "SELECT denied on column public.rsvp.name: secret"
  /\ Len(InSelectOrReturning(output.calls)) = 2

(***************************************************************************)
(* C4: in a top-level select projection or a returning clause, the         *)
(* rewritten list is the input list without exactly the columns the column *)
(* guard omits, the others in their order; and omitting, even every        *)
(* column, does not make a supported statement fail.                       *)
(***************************************************************************)
C4_OmitDropsExactly ==
  (Transformed /\ ProperProjection(input)) =>
    /\ output.ok => Projection(output.val) = [present |-> TRUE, items |-> KeptItems(input)]
    /\ (WellFormed(input) /\ OnlyProjectionRules
          /\ \A i \in 1..Len(guard.column) : guard.column[i].result.tag = Omit)
         => output.ok

\* Every projected column of a select is omitted.
C4_Witness ==
  /\ Transformed
  /\ input.kind = "SelectQueryNode" /\ ProperProjection(input)
  /\ Len(input.selections.items) = 2
  /\ \A i \in 1..2 : ProjectionResult(input, input.selections.items[i]).tag = Omit
  /\ output.ok
  /\ output.val.selections.items = <<>>

\* One of two returned columns is omitted.
C4_WitnessReturning ==
  /\ Transformed
  /\ input.kind = "UpdateQueryNode" /\ ProperProjection(input)
  /\ Len(input.returning.items) = 2
  /\ output.ok
  /\ Len(output.val.returning.items) = 1

(***************************************************************************)
(* C5: the returning clause of an insert, update or delete is authorized   *)
(* like a projection: the column guard is called per returned column with  *)
(* (target table, column, the statement's type, ColumnInSelectOrReturning);*)
(* a denied column makes the statement fail, with "SELECT denied on column *)
(* ..." when nothing else is in the way; an omitted column is dropped and  *)
(* the others kept; a returning clause under any other statement fails     *)
(* with an invariant error naming the statement's kind.                    *)
(***************************************************************************)
C5_Returning ==
  Transformed =>
    /\ (input.kind \in {"InsertQueryNode", "UpdateQueryNode", "DeleteQueryNode"}
          /\ ProperProjection(input)) =>
         LET items == input.returning.items
             denied == DeniedItems(input)
         IN /\ denied # {} => ~output.ok /\ output.val = NoNode
            /\ output.ok =>
                 /\ InSelectOrReturning(output.calls) =
                      [i \in 1..Len(items) |->
                         [fn |-> "column", table |-> TargetOf(input),
                          column |-> items[i].column, statementType |-> TypeOf(input),
                          context |-> ColumnUsageContext.ColumnInSelectOrReturning]]
                 /\ output.val.returning.items = KeptItems(input)
            /\ (denied # {} /\ WellFormed(input) /\ OnlyProjectionRules) =>
                 output.error =
                   ColumnDeniedMessage("SELECT", TargetOf(input), items[FirstOf(denied)].column,
                                       ProjectionResult(input, items[FirstOf(denied)]))
    /\ (input.kind = "MergeQueryNode" /\ input.returning.present) =>
         /\ ~output.ok
         /\ output.error =
              "Invariant failed: kysely-access-control: returning must be used with insert, update, or delete. kind was MergeQueryNode"

\* A delete returns a column the guard denies for deletes.
C5_Witness ==
  /\ Transformed
  /\ input.kind = "DeleteQueryNode" /\ ProperProjection(input)
  /\ output.error = "SELECT denied on column person.id"
  /\ \E i \in 1..Len(output.calls) :
       output.calls[i].statementType = StatementType.Delete
         /\ output.calls[i].context = ColumnUsageContext.ColumnInSelectOrReturning

C7_ValuesFollowColumns ==
  (Transformed /\ input.kind = "InsertQueryNode" /\ input.columns.present /\ output.ok) =>
    \A r \in 1..Len(output.val.values) :
      /\ Len(output.val.values[r]) = Len(output.val.columns.items)
      /\ \A i \in 1..Len(output.val.columns.items) :
           i <= Len(output.val.values[r]) =>
             output.val.values[r][i].for = output.val.columns.items[i]

(***************************************************************************)
(* C8, as stated: a top-level select with a select-all in its projection   *)
(* is rejected, whatever the guard.                                        *)
(***************************************************************************)
HasSelectAll(node) ==
  /\ node.selections.present
  /\ \E i \in 1..Len(node.selections.items) : node.selections.items[i].column = "*"

C9_Original ==
  (Transformed /\ AllAllow) => output.ok /\ output.val = input

(***************************************************************************)
(* C9, amended: under guards that allow everything (the defaults included) *)
(* a statement transforms exactly when it is one the plugin supports, the  *)
(* rewritten node is then the input node, and a failure is never an        *)
(* authorization denial.                                                   *)
(***************************************************************************)
C9_AllAllowIdentity ==
  (Transformed /\ AllAllow) =>
    /\ output.ok <=> WellFormed(input)
    /\ output.ok => output.val = input
    /\ ~output.ok => output.val = NoNode /\ output.error \notin TableDenials \cup ColumnDenials

\* A select with a join and a filter goes through the default guards.
C9_Witness ==
  /\ Transformed
  /\ guard = DefaultGuard
  /\ input.kind = "SelectQueryNode" /\ Joining(input) /\ input.where.present
  /\ Len(output.calls) > 3
  /\ output.ok /\ output.val = input

(***************************************************************************)
(* C10: when a top-level select (with a from clause) or update transforms  *)
(* and the table guard returned Allow with predicate P for its target, the *)
(* rewritten filter is P AND W, P first, if the statement had the filter   *)
(* W, and P if it had none; when the guard returned plain Allow the filter *)
(* clause is the input's.                                                  *)
(***************************************************************************)
C10_RowLevelFilter ==
  (Transformed /\ input.kind \in {"SelectQueryNode", "UpdateQueryNode"}
     /\ HasTarget(input) /\ output.ok) =>
    LET r == TopLevelResult(input)
    IN /\ (r.tag = Allow /\ r.arr) =>
            output.val.where =
              IF input.where.present
              THEN [present |-> TRUE,
                    where |-> [op |-> "and", tag |-> "", refs |-> <<>>,
                               args |-> <<r.pred, input.where.where>>]]
              ELSE [present |-> TRUE, where |-> r.pred]
       /\ (r.tag = Allow /\ ~r.arr) => output.val.where = input.where

\* An update with a filter gets the predicate in front of it.
C10_Witness ==
  /\ Transformed
  /\ input.kind = "UpdateQueryNode" /\ input.where.present
  /\ TopLevelResult(input).arr /\ TopLevelResult(input).tag = Allow
  /\ output.ok
  /\ output.val.where.where.args[1] = TopLevelResult(input).pred
  /\ output.val.where.where.args[2] = input.where.where

(***************************************************************************)
(* C11, as stated: in a statement that transforms, a named table used as   *)
(* join, from or using source for which the table guard returns Allow with *)
(* predicate P in the join context is replaced by the derived subquery     *)
(* "select * from table where P" under the table's name; a named table     *)
(* with plain Allow stays as it is, a subquery source stays a subquery     *)
(* over the same table under the same alias, and the outer filter is what  *)
(* the target's own guard result makes of it.                              *)
(***************************************************************************)
JoinResult(src, st) == fullGuardTable(src.table, st, TableUsageContext.TableInJoin)

DerivedSubquery(src, P) ==
  [kind |-> "AliasNode", table |-> NoTable, alias |-> src.table.name,
   node |-> [EmptyQuery("SelectQueryNode") EXCEPT
               !.from = [present |-> TRUE, items |-> <<src>>],
               !.selections = [present |-> TRUE,
                               items |-> <<[isRef |-> FALSE, table |-> NoTable, column |-> "*"]>>],
               !.where = [present |-> TRUE, where |-> P]]]

\* The outer filter after the transformation: only a select or update
\* gets its target's predicate.
OuterFilter(node) ==
  LET r == TopLevelResult(node)
  IN IF node.kind \in {"SelectQueryNode", "UpdateQueryNode"} /\ r.tag = Allow /\ r.arr
     THEN IF node.where.present
          THEN [present |-> TRUE,
                where |-> [op |-> "and", tag |-> "", refs |-> <<>>,
                           args |-> <<r.pred, node.where.where>>]]
          ELSE [present |-> TRUE, where |-> r.pred]
     ELSE node.where

C11_DerivedSubquery ==
  (Transformed /\ IsStatement(input) /\ HasTarget(input) /\ output.ok) =>
    LET ins == SecondarySources(input)
        outs == SecondarySources(output.val)
    IN /\ Len(outs) = Len(ins)
       /\ \A i \in 1..Len(ins) :
            IF ins[i].kind = "TableNode"
            THEN LET r == JoinResult(ins[i], SourceType(input, i))
                 IN outs[i] = IF r.tag = Allow /\ r.arr
                              THEN DerivedSubquery(ins[i], r.pred)
                              ELSE ins[i]
            ELSE /\ outs[i].kind = "AliasNode"
                 /\ outs[i].alias = ins[i].alias
                 /\ outs[i].node.from = ins[i].node.from
       /\ output.val.where = OuterFilter(input)

(***************************************************************************)
(* C12: the table usage context is enforced on its own.  In a select on    *)
(* one named table: a Deny for the target at top level gives "SELECT       *)
(* denied on table <t>"; when the target is allowed and every joined       *)
(* source is a named table with plain Allow in the join context, a         *)
(* supported select transforms into itself, whatever the guard says about  *)
(* the joined table at top level; when the target is allowed, the          *)
(* projection passes and the joined table is denied in the join context,   *)
(* the error is "JOIN denied on table <t>".                                *)
(***************************************************************************)
C12_JoinContext ==
  (Transformed /\ input.kind = "SelectQueryNode" /\ HasTarget(input)) =>
    LET top == TopLevelResult(input)
        joined == [i \in 1..Len(input.joins) |-> input.joins[i].table]
    IN /\ top.tag = Deny =>
            output.error = TableDeniedMessage("SELECT", TargetOf(input), top)
       /\ (/\ top = AllowPlain /\ guard.column = <<>> /\ WellFormed(input)
           /\ \A i \in 1..Len(joined) :
                /\ joined[i].kind = "TableNode"
                /\ JoinResult(joined[i], StatementType.Select) = AllowPlain)
            => output.ok /\ output.val = input
       /\ (/\ top.tag = Allow /\ guard.column = <<>> /\ ProperProjection(input)
           /\ Len(joined) > 0 /\ joined[1].kind = "TableNode"
           /\ JoinResult(joined[1], StatementType.Select).tag = Deny)
            => /\ ~output.ok
               /\ output.error =
                    TableDeniedMessage("JOIN", joined[1].table,
                                       JoinResult(joined[1], StatementType.Select))

\* rsvp is denied at top level only, and a select from person joins it.
C12_Witness ==
  /\ Transformed
  /\ input.kind = "SelectQueryNode" /\ HasTarget(input) /\ TargetOf(input) = PersonTable
  /\ Len(input.joins) = 1 /\ input.joins[1].table.kind = "TableNode"
  /\ fullGuardTable(RsvpTable, StatementType.Select, TableUsageContext.TableTopLevel).tag = Deny
  /\ JoinResult(input.joins[1].table, StatementType.Select) = AllowPlain
  /\ output.ok

\* rsvp is denied in joins, and a select from person joins it.
C12_WitnessDenied ==
  /\ Transformed
  /\ input.kind = "SelectQueryNode" /\ HasTarget(input) /\ TargetOf(input) = PersonTable
  /\ output.error = "JOIN denied on table public.rsvp: no access"

(***************************************************************************)
(* Vocabulary for column references in filters.                            *)
(***************************************************************************)
\* The table a filter reference of a statement is guarded against.
FilterOwner(node, ref) == IF ref.table = NoTable THEN TargetOf(node) ELSE ref.table

FilterResult(node, ref) ==
  fullGuardColumn(FilterOwner(node, ref), ref.column, StatementType.Select,
                  ColumnUsageContext.ColumnInWhereOrJoin)

FilterCall(node, ref) ==
  [fn |-> "column", table |-> FilterOwner(node, ref), column |-> ref.column,
   statementType |-> StatementType.Select,
   context |-> ColumnUsageContext.ColumnInWhereOrJoin]

InWhereOrJoin(calls) ==
  SelectSeq(calls, LAMBDA c : c.context = ColumnUsageContext.ColumnInWhereOrJoin)

\* The references of a select's join conditions, then of its where clause:
\* the order the traversal meets them in.
RECURSIVE OnRefs(_, _)
OnRefs(joins, i) ==
  IF i > Len(joins) THEN <<>> ELSE FilterRefs(joins[i].on) \o OnRefs(joins, i + 1)

FilterResultsIn(node, refs, tags) ==
  {i \in 1..Len(refs) : FilterResult(node, refs[i]).tag \in tags}

C13_WitnessOpposite ==
  /\ Transformed
  /\ input.kind = "SelectQueryNode" /\ ~Joining(input) /\ HasTarget(input)
  /\ FilterRefs(input.where) = <<[table |-> PersonTable, column |-> "name"]>>
  /\ fullGuardColumn(PersonTable, "name", StatementType.Select,
                     ColumnUsageContext.ColumnInSelectOrReturning).tag = Deny
  /\ output.ok

(***************************************************************************)
(* C14: the column references of a join condition are guarded with         *)
(* (qualifying table, column, select, ColumnInWhereOrJoin).  In a          *)
(* supported select that joins named tables and whose projection passes,   *)
(* the first reference of the join conditions and then of the where clause *)
(* that the guard denies in that context fails the select with "FILTER     *)
(* denied on column <table>.<column>"; when none is denied in that context *)
(* the select transforms, whatever the guard says about those columns      *)
(* elsewhere.                                                              *)
(***************************************************************************)
C14_JoinCondition ==
  (Transformed /\ input.kind = "SelectQueryNode" /\ ProperProjection(input)
     /\ Joining(input) /\ WellFormed(input) /\ guard.table = <<>>
     /\ \A i \in 1..Len(input.joins) : input.joins[i].table.kind = "TableNode"
     /\ DeniedItems(input) = {}) =>
    LET refs == OnRefs(input.joins, 1) \o FilterRefs(input.where)
        denied == FilterResultsIn(input, refs, {Deny})
    IN IF denied # {}
       THEN /\ ~output.ok /\ output.val = NoNode
            /\ output.error =
                 ColumnDeniedMessage("FILTER", refs[FirstOf(denied)].table,
                                     refs[FirstOf(denied)].column,
                                     FilterResult(input, refs[FirstOf(denied)]))
            /\ InWhereOrJoin(output.calls) =
                 [i \in 1..FirstOf(denied) |-> FilterCall(input, refs[i])]
       ELSE /\ output.ok
            /\ InWhereOrJoin(output.calls) = [i \in 1..Len(refs) |-> FilterCall(input, refs[i])]

\* A select without a where clause joins rsvp on rsvp.id, which is denied
\* in filters.
C14_Witness ==
  /\ Transformed
  /\ input.kind = "SelectQueryNode" /\ Joining(input) /\ ~input.where.present
  /\ input.joins[1].table.kind = "TableNode"
  /\ output.error = "FILTER denied on column public.rsvp.id: secret"

\* rsvp.id is denied in projections only, and a select joins on it.
C14_WitnessElsewhere ==
  /\ Transformed
  /\ input.kind = "SelectQueryNode" /\ Joining(input)
  /\ input.joins[1].table.kind = "TableNode"
  /\ fullGuardColumn(RsvpTable, "id", StatementType.Select,
                     ColumnUsageContext.ColumnInSelectOrReturning).tag = Deny
  /\ \E i \in 1..Len(OnRefs(input.joins, 1)) :
       OnRefs(input.joins, 1)[i] = [table |-> RsvpTable, column |-> "id"]
  /\ output.ok

(***************************************************************************)
(* C15, as stated: a statement with a column reference in its where clause *)
(* or in a join condition for which the column guard returns Omit (in the  *)
(* context ColumnInWhereOrJoin) does not transform.                        *)
(***************************************************************************)
C15_OmitInFilterFails ==
  (Transformed /\ IsStatement(input) /\ HasTarget(input)) =>
    LET refs == OnRefs(input.joins, 1) \o FilterRefs(input.where)
    IN FilterResultsIn(input, refs, {Omit}) # {} => ~output.ok

(***************************************************************************)
(* C16, as stated: in a select, update or delete on a named table with a   *)
(* further table in scope (a join, an update-from source or a delete-using *)
(* source), an unqualified column in the select's projection or in the     *)
(* where clause makes the transformation fail; with no further table, the  *)
(* unqualified references of a statement that transforms are guarded       *)
(* against the statement's own table.                                      *)
(***************************************************************************)
MultiScope(node) == Len(SecondarySources(node)) > 0

UnqualifiedItems(node) ==
  IF node.kind = "SelectQueryNode"
  THEN {i \in 1..Len(node.selections.items) :
          node.selections.items[i].isRef /\ node.selections.items[i].table = NoTable}
  ELSE {}

UnqualifiedRefs(node) ==
  {i \in 1..Len(FilterRefs(node.where)) : FilterRefs(node.where)[i].table = NoTable}

C16_Unqualified ==
  (Transformed /\ input.kind \in {"SelectQueryNode", "UpdateQueryNode", "DeleteQueryNode"}
     /\ HasTarget(input)) =>
    LET items == Projection(input).items
        refs == FilterRefs(input.where)
    IN /\ (MultiScope(input) /\ (UnqualifiedItems(input) # {} \/ UnqualifiedRefs(input) # {}))
            => ~output.ok /\ output.val = NoNode
       /\ (~MultiScope(input) /\ output.ok /\ TopLevelResult(input) = AllowPlain)
            => /\ InWhereOrJoin(output.calls) =
                    [i \in 1..Len(refs) |->
                       [fn |-> "column",
                        table |-> IF refs[i].table = NoTable THEN TargetOf(input)
                                  ELSE refs[i].table,
                        column |-> refs[i].column,
                        statementType |-> StatementType.Select,
                        context |-> ColumnUsageContext.ColumnInWhereOrJoin]]
               /\ InSelectOrReturning(output.calls) =
                    [i \in 1..Len(items) |->
                       [fn |-> "column", table |-> TargetOf(input),
                        column |-> items[i].column, statementType |-> TypeOf(input),
                        context |-> ColumnUsageContext.ColumnInSelectOrReturning]]

(***************************************************************************)
(* C17: a delete's target is only allowed or denied.  A Deny gives "DELETE *)
(* denied on table <t>"; a delete that transforms keeps the filter clause  *)
(* and the target of the input, whether the guard returned plain Allow or  *)
(* Allow with a predicate; and an Allow with a predicate does not make a   *)
(* supported delete fail.                                                  *)
(***************************************************************************)
\* No subquery among the secondary sources joins a further source (whose
\* own table could be denied or carry a predicate the join cannot resolve).
FlatSources(node) ==
  \A i \in 1..Len(SecondarySources(node)) :
    SecondarySources(node)[i].kind = "AliasNode" => SecondarySources(node)[i].node.joins = <<>>

CallResult(c) ==
  IF c.fn = "table" THEN fullGuardTable(c.table, c.statementType, c.context)
  ELSE fullGuardColumn(c.table, c.column, c.statementType, c.context)

\* The answer to the call aborts the transformation.
Aborting(c) ==
  \/ CallResult(c).tag = Deny
  \/ /\ CallResult(c).tag = Omit
     /\ c.context = ColumnUsageContext.ColumnInUpdateSet

C18_WitnessReturned ==
  /\ Transformed
  /\ output.ok /\ output.val # input
  /\ output.val.kind = input.kind

(***************************************************************************)
(* The grant lists and guard calls explored (kyselyGrants.test.ts).        *)
(***************************************************************************)
\* Grants on whole tables: blanket grants, and grants with a predicate that
\* is permissive by default, permissive, or restrictive.
TableGrants ==
  {GrantWithoutWhereClause("person", undefined, "select", NoColumns),
   GrantWithoutWhereClause("person", undefined, "all", NoColumns),
   GrantWithWhereClause("person", undefined, "all", NoColumns,
                        Atom("first_name = Ben", <<Ref(PersonTable, "name")>>), undefined),
   GrantWithWhereClause("person", undefined, "select", NoColumns,
                        Atom("first_name = George", <<Ref(PersonTable, "name")>>), "permissive"),
   GrantWithWhereClause("person", undefined, "all", NoColumns,
                        Atom("last_name = Smith", <<Ref(PersonTable, "name")>>), "restrictive"),
   GrantWithWhereClause("person", undefined, "select", NoColumns,
                        Atom("id > 5", <<Ref(PersonTable, "id")>>), "restrictive"),
   GrantWithoutWhereClause("rsvp", "public", "select", NoColumns),
   GrantWithWhereClause("rsvp", undefined, "delete", NoColumns,
                        Atom("person_id = 1", <<Ref(RsvpTable, "id")>>), "restrictive")}

\* Grants on columns.
ColumnGrants ==
  {GrantWithoutWhereClause("person", undefined, "select", ColumnsOf(<<"id">>)),
   GrantWithoutWhereClause("person", undefined, "select", ColumnsOf(<<"name">>)),
   GrantWithoutWhereClause("person", undefined, "update", ColumnsOf(<<"id">>)),
   GrantWithoutWhereClause("person", undefined, "insert", ColumnsOf(<<"name">>)),
   GrantWithoutWhereClause("person", undefined, "all", ColumnsOf(<<"id">>)),
   GrantWithoutWhereClause("person", "public", "delete", NoColumns),
   GrantWithoutWhereClause("rsvp", "public", "select", NoColumns)}

GrantLists == SeqsUpTo(TableGrants, MaxGrants) \cup SeqsUpTo(ColumnGrants, MaxGrants)

\* The tables a guard is asked about: those of the statements, and a table
\* of the same name in another schema.
GuardedTables == Tables \cup {[schema |-> "private", name |-> "rsvp"]}

\* The columns a guard is asked about: those of the statements, and one no
\* grant names.
GuardedColumns == Columns \cup {"ssn"}

(***************************************************************************)
(* The guard of createKyselyGrantGuard, asked one question.                *)
(***************************************************************************)
\* createKyselyGrantGuard (46-48, 169), handed a list of grants: the guard
\* closes over it.
createKyselyGrantGuard ==
  /\ pc = "init"
  /\ \E grants \in GrantLists : guard' = [grants |-> grants]
  /\ pc' = "granted"
  /\ UNCHANGED <<input, output>>

\* guard.table called
guardTable(table, statementType, tableUsageContext) ==
  /\ pc = "granted"
  /\ input' = TableCall(table, statementType, tableUsageContext)
  /\ output' = grantGuardTable(guard.grants, table, statementType, tableUsageContext)
  /\ pc' = "answered"
  /\ UNCHANGED guard

\* guard.column called
guardColumn(table, column, statementType, columnUsageContext) ==
  /\ pc = "granted"
  /\ input' = ColumnCall(table, column, statementType, columnUsageContext)
  /\ output' = grantGuardColumn(guard.grants, table, column, statementType, columnUsageContext)
  /\ pc' = "answered"
  /\ UNCHANGED guard

GrantNext ==
  \/ createKyselyGrantGuard
  \/ \E table \in GuardedTables, statementType \in StatementTypes,
        tableUsageContext \in TableUsageContexts :
       guardTable(table, statementType, tableUsageContext)
  \/ \E table \in Tables, column \in GuardedColumns, statementType \in StatementTypes,
        columnUsageContext \in ColumnUsageContexts :
       guardColumn(table, column, statementType, columnUsageContext)

GrantSpec == Init /\ [][GrantNext]_vars

Answered == pc = "answered"
TableAnswered == Answered /\ input.fn = "table"

(***************************************************************************)
(* C19: the table guard made from grants answers Deny exactly when no      *)
(* grant of the list matches the call, a grant matching when its schema is *)
(* left out or is the schema of the table, its table is the name of the    *)
(* table, and its permission is the statement type or "all".  The answer   *)
(* is the same for every table usage context.  In particular a list whose  *)
(* grants on the table are all select grants answers Deny to an insert, an *)
(* update and a delete.                                                    *)
(***************************************************************************)
GrantMatches(grant, call) ==
  /\ \/ grant.schema = undefined
     \/ call.table.schema # "" /\ grant.schema = call.table.schema
  /\ grant.table = call.table.name
  /\ grant.for \in {call.statementType, "all"}

MatchingGrants(call) ==
  {i \in 1..Len(guard.grants) : GrantMatches(guard.grants[i], call)}

C19_DenyIffNoMatch ==
  TableAnswered =>
    /\ (output.tag = Deny) <=> (MatchingGrants(input) = {})
    /\ output.tag \in {Allow, Deny}
    /\ output.tag = Deny => output = DenyPlain
    /\ \A tableUsageContext \in TableUsageContexts :
         grantGuardTable(guard.grants, input.table, input.statementType, tableUsageContext)
           = output
    /\ ( /\ input.statementType # StatementType.Select
         /\ \A i \in 1..Len(guard.grants) :
              guard.grants[i].table = input.table.name => guard.grants[i].for = "select" )
         => output.tag = Deny

\* A select grant on the table, and the guard asked about an insert, an
\* update or a delete on it in a join.
C19_Witness ==
  /\ TableAnswered
  /\ input.statementType # StatementType.Select
  /\ input.context = TableUsageContext.TableInJoin
  /\ \E i \in 1..Len(guard.grants) :
       GrantMatches(guard.grants[i], [input EXCEPT !.statementType = StatementType.Select])
  /\ MatchingGrants(input) = {}
  /\ output = DenyPlain

\* A grant that names the table but another schema.
C19_WitnessSchema ==
  /\ TableAnswered
  /\ \E i \in 1..Len(guard.grants) :
       /\ guard.grants[i].table = input.table.name
       /\ guard.grants[i].for = input.statementType
       /\ guard.grants[i].schema \notin {undefined, input.table.schema}
  /\ output = DenyPlain

(***************************************************************************)
(* C20: when a grant without a predicate matches the call, the table guard *)
(* made from grants answers plain Allow, whatever predicates the other     *)
(* matching grants carry.                                                  *)
(***************************************************************************)
C20_BlanketGrant ==
  (TableAnswered /\ \E i \in MatchingGrants(input) : ~guard.grants[i].hasWhere)
    => output = AllowPlain

(***************************************************************************)
(* C21: when matching grants carry predicates, the table guard made from   *)
(* grants answers Allow with a predicate that is true of a row exactly     *)
(* when some permissive predicate is true of it and every restrictive      *)
(* predicate is: the OR of the permissive ones when there is no            *)
(* restrictive one, and false of every row when there is no permissive     *)
(* one.  A predicate grant that names no whereType is permissive.          *)
(***************************************************************************)
\* A row is known by the comparisons that are true of it.
Comparisons ==
  {"first_name = Ben", "first_name = George", "last_name = Smith", "id > 5", "person_id = 1"}
Rows == SUBSET Comparisons

RECURSIVE Holds(_, _)
Holds(expr, row) ==
  IF expr.op = "atom" THEN expr.tag \in row
  ELSE IF expr.op = "lit" THEN expr.tag = "true"
  ELSE IF expr.op = "or" THEN \E i \in 1..Len(expr.args) : Holds(expr.args[i], row)
  ELSE IF expr.op = "and" THEN \A i \in 1..Len(expr.args) : Holds(expr.args[i], row)
  ELSE FALSE

PredicateGrants(call) == {i \in MatchingGrants(call) : guard.grants[i].hasWhere}
RestrictiveGrants(call) ==
  {i \in PredicateGrants(call) : guard.grants[i].whereType = "restrictive"}
PermissiveGrants(call) == PredicateGrants(call) \ RestrictiveGrants(call)

C21_Combination ==
  (TableAnswered /\ PredicateGrants(input) # {}) =>
    /\ output.tag = Allow /\ output.arr
    /\ \A row \in Rows :
         Holds(output.pred, row) <=>
           /\ \E i \in PermissiveGrants(input) : Holds(guard.grants[i].where, row)
           /\ \A i \in RestrictiveGrants(input) : Holds(guard.grants[i].where, row)
    /\ RestrictiveGrants(input) = {} =>
         output.pred = ebOr([k \in 1..Len(grantsWithWheres(guard.grants, input.table, input.statementType))
                               |-> grantsWithWheres(guard.grants, input.table, input.statementType)[k].where])
    /\ PermissiveGrants(input) = {} => output.pred = litFalse

\* Two permissive predicates, one of them without a whereType, and a
\* restrictive one: (P1 OR P2) AND R.
C21_Witness ==
  /\ TableAnswered
  /\ Cardinality(PermissiveGrants(input)) = 2
  /\ Cardinality(RestrictiveGrants(input)) = 1
  /\ \E i \in PermissiveGrants(input) : guard.grants[i].whereType = undefined
  /\ \E i \in PermissiveGrants(input) : guard.grants[i].whereType = "permissive"
  /\ output.arr /\ output.pred.op = "and"
  /\ output.pred.args[1].op = "or"

\* Restrictive predicates only.
C21_WitnessRestrictive ==
  /\ TableAnswered
  /\ PermissiveGrants(input) = {}
  /\ RestrictiveGrants(input) # {}
  /\ output = AllowWith(litFalse)

(***************************************************************************)
(* C22: the column guard made from grants allows a column exactly when it  *)
(* is in the union of the column sets of the grants on the table whose     *)
(* permission covers the usage context of the call, a grant without a      *)
(* column set standing for every column; it denies every other column,     *)
(* never answers Omit, and answers the same when two grants of the list    *)
(* change places.                                                          *)
(***************************************************************************)
ColumnAnswered == Answered /\ input.fn = "column"

\* The usage contexts a permission covers.
ContextsOf(for) ==
  IF for = "all" THEN ColumnUsageContexts
  ELSE IF for = "select"
  THEN {ColumnUsageContext.ColumnInSelectOrReturning, ColumnUsageContext.ColumnInWhereOrJoin}
  ELSE IF for = "update" THEN {ColumnUsageContext.ColumnInUpdateSet}
  ELSE IF for = "insert" THEN {ColumnUsageContext.ColumnInInsert}
  ELSE {}

OnTable(grant, table) ==
  /\ \/ grant.schema = undefined
     \/ table.schema # "" /\ grant.schema = table.schema
  /\ grant.table = table.name

ColumnSet(grant) ==
  IF ~grant.columns.present THEN GuardedColumns
  ELSE {grant.columns.items[k] : k \in 1..Len(grant.columns.items)}

\* The grants on the table of the call whose permission covers its context.
CoveringGrants(call) ==
  {i \in 1..Len(guard.grants) :
     /\ OnTable(guard.grants[i], call.table)
     /\ call.context \in ContextsOf(guard.grants[i].for)}

GrantedColumns(call) == UNION {ColumnSet(guard.grants[i]) : i \in CoveringGrants(call)}

Swap(seq, i, j) == [seq EXCEPT ![i] = seq[j], ![j] = seq[i]]

C22_Union ==
  ColumnAnswered =>
    /\ output = IF input.column \in GrantedColumns(input) THEN AllowPlain ELSE DenyPlain
    /\ output.tag # Omit
    /\ \A i, j \in 1..Len(guard.grants) :
         grantGuardColumn(Swap(guard.grants, i, j), input.table, input.column,
                          input.statementType, input.context) = output

\* Two grants of one permission on one table with column sets {x} and {y}:
\* y is allowed though the first grant does not name it.
C22_Witness ==
  /\ ColumnAnswered
  /\ \E i, j \in CoveringGrants(input) :
       /\ i < j
       /\ guard.grants[i].for = guard.grants[j].for
       /\ guard.grants[i].columns.present /\ guard.grants[j].columns.present
       /\ input.column \notin ColumnSet(guard.grants[i])
       /\ input.column \in ColumnSet(guard.grants[j])
  /\ output = AllowPlain

\* A column outside the union of the two sets.
C22_WitnessOutside ==
  /\ ColumnAnswered
  /\ Cardinality(CoveringGrants(input)) >= 2
  /\ Cardinality(GrantedColumns(input)) = 2
  /\ input.column \notin GrantedColumns(input)
  /\ output = DenyPlain

(***************************************************************************)
(* C23: the column guard made from grants answers Allow exactly when some  *)
(* grant matches the schema, the table and the column of the call and its  *)
(* permission is "all" or covers the usage context of the call (select:    *)
(* projection/returning and filter/join condition; update: set clause;     *)
(* insert: insert list; delete: none), and Deny otherwise.  The statement  *)
(* type of the call plays no part: a select grant allows a returned or     *)
(* filtered column of an update, an insert or a delete.                    *)
(***************************************************************************)
\* As first stated: the permission must also be the statement type.
C23_Original ==
  ColumnAnswered =>
    ( output = AllowPlain <=>
        \E i \in 1..Len(guard.grants) :
          /\ OnTable(guard.grants[i], input.table)
          /\ input.column \in ColumnSet(guard.grants[i])
          /\ \/ guard.grants[i].for = "all"
             \/ /\ guard.grants[i].for = input.statementType
                /\ input.context \in ContextsOf(guard.grants[i].for) )

C23_ContextDecides ==
  ColumnAnswered =>
    /\ output = AllowPlain <=>
         \E i \in 1..Len(guard.grants) :
           /\ OnTable(guard.grants[i], input.table)
           /\ input.column \in ColumnSet(guard.grants[i])
           /\ \/ guard.grants[i].for = "all"
              \/ input.context \in ContextsOf(guard.grants[i].for)
    /\ output # AllowPlain => output = DenyPlain
    /\ \A statementType \in StatementTypes :
         grantGuardColumn(guard.grants, input.table, input.column, statementType,
                          input.context) = output

\* A select grant alone allows the returned column of an update.
C23_Witness ==
  /\ ColumnAnswered
  /\ input.statementType = StatementType.Update
  /\ input.context = ColumnUsageContext.ColumnInSelectOrReturning
  /\ \A i \in 1..Len(guard.grants) : guard.grants[i].for = "select"
  /\ output = AllowPlain

\* An update grant does not allow the column in a filter of an update.
C23_WitnessDenied ==
  /\ ColumnAnswered
  /\ input.statementType = StatementType.Update
  /\ input.context = ColumnUsageContext.ColumnInWhereOrJoin
  /\ \E i \in 1..Len(guard.grants) :
       /\ OnTable(guard.grants[i], input.table)
       /\ guard.grants[i].for = "update"
       /\ input.column \in ColumnSet(guard.grants[i])
  /\ output = DenyPlain

(***************************************************************************)
(* The plugin with a guard made from grants (kyselyGrants.test.ts 72-75).  *)
(***************************************************************************)
MaxPluginGrants == 2

\* Grants on the tables of the statements: whole tables and single columns,
\* one permission each, and a grant with a row-level predicate.
PluginGrants ==
  {GrantWithoutWhereClause("person", undefined, "select", NoColumns),
   GrantWithoutWhereClause("person", undefined, "select", ColumnsOf(<<"id">>)),
   GrantWithoutWhereClause("person", undefined, "update", ColumnsOf(<<"id">>)),
   GrantWithoutWhereClause("person", undefined, "insert", ColumnsOf(<<"id">>)),
   GrantWithoutWhereClause("person", undefined, "delete", NoColumns),
   GrantWithoutWhereClause("rsvp", "public", "select", NoColumns),
   GrantWithoutWhereClause("rsvp", undefined, "update", NoColumns),
   GrantWithoutWhereClause("rsvp", undefined, "delete", NoColumns),
   GrantWithWhereClause("person", undefined, "all", NoColumns,
                        Atom("first_name = Ben", <<Ref(PersonTable, "name")>>), undefined)}

GrantGuards == {GrantGuardOf(grants) : grants \in SeqsUpTo(PluginGrants, MaxPluginGrants)}

\* createPlugin: createAccessControlPlugin(createKyselyGrantGuard(grants)),
\* then a statement handed to the plugin.
GrantPluginNext ==
  \/ \E g \in GrantGuards : createAccessControlPlugin(g)
  \/ \E node \in Queries : transformQuery(node)

GrantPluginSpec == Init /\ [][GrantPluginNext]_vars

\* Some grant on the table with one of the permissions names the column.
Covered(table, column, permissions) ==
  \E i \in 1..Len(guard.grants) :
    /\ OnTable(guard.grants[i], table)
    /\ guard.grants[i].for \in permissions
    /\ column \in ColumnSet(guard.grants[i])

(***************************************************************************)
(* C24: with a guard made from grants, the columns returned by an insert   *)
(* or an update are authorized by select and all grants alone.  When the   *)
(* statement without its returning clause is accepted, it is accepted with *)
(* the clause exactly when every returned column is covered by a select    *)
(* or all grant on the target, whatever insert and update grants there     *)
(* are, and it fails otherwise with "SELECT denied on column               *)
(* <table>.<column>" for the first column that is not.  A statement that   *)
(* is accepted inserts only columns covered by an insert or all grant and  *)
(* sets only columns covered by an update or all grant.                    *)
(***************************************************************************)
WithoutReturning(node) == [node EXCEPT !.returning = NoClause]

Uncovered(node) ==
  {i \in 1..Len(node.returning.items) :
     ~Covered(TargetOf(node), node.returning.items[i].column, {"select", "all"})}

C24_ReturningBySelect ==
  ( /\ Transformed
    /\ input.kind \in {"InsertQueryNode", "UpdateQueryNode"} /\ HasTarget(input)
    /\ input.returning.present
    /\ \A i \in 1..Len(input.returning.items) : IsColumn(input.returning.items[i]) )
  => /\ (transformNode(WithoutReturning(input)).ok /\ Uncovered(input) = {}) => output.ok
     /\ (transformNode(WithoutReturning(input)).ok /\ Uncovered(input) # {}) =>
          /\ ~output.ok
          /\ output.error = "SELECT denied on column " \o QualifiedName(TargetOf(input))
               \o "." \o input.returning.items[FirstOf(Uncovered(input))].column
     /\ output.ok =>
          /\ Uncovered(input) = {}
          /\ input.kind = "InsertQueryNode" /\ input.columns.present =>
               \A i \in 1..Len(input.columns.items) :
                 Covered(TargetOf(input), input.columns.items[i], {"insert", "all"})
          /\ input.kind = "UpdateQueryNode" =>
               \A i \in 1..Len(input.updates) :
                 Covered(TargetOf(input), input.updates[i].column, {"update", "all"})

\* An update returning a column that a select grant covers and no update
\* or all grant does.
C24_Witness ==
  /\ Transformed
  /\ input.kind = "UpdateQueryNode" /\ input.returning.present
  /\ \E i \in 1..Len(input.returning.items) :
       /\ IsColumn(input.returning.items[i])
       /\ ~Covered(TargetOf(input), input.returning.items[i].column, {"update", "all"})
       /\ Covered(TargetOf(input), input.returning.items[i].column, {"select"})
  /\ output.ok

\* An insert whose returned column no select grant covers.
C24_WitnessDenied ==
  /\ Transformed
  /\ input.kind = "InsertQueryNode" /\ input.returning.present
  /\ Uncovered(input) # {}
  /\ Covered(TargetOf(input), input.returning.items[FirstOf(Uncovered(input))].column, {"insert"})
  /\ output.error = "SELECT denied on column person.id"

\* A select grant on a column and an insert that lists it.
C24_WitnessInsert ==
  /\ Transformed
  /\ input.kind = "InsertQueryNode" /\ input.columns.present
  /\ \E i \in 1..Len(input.columns.items) :
       /\ Covered(TargetOf(input), input.columns.items[i], {"select"})
       /\ ~Covered(TargetOf(input), input.columns.items[i], {"insert", "all"})
  /\ output.error = "INSERT denied on column person.name"

(***************************************************************************)
(* C25: with a guard made from grants, every table that is a data source   *)
(* of an accepted statement (the table a select reads, a joined table, a   *)
(* source of an update's from clause or of a delete's using clause, named  *)
(* directly or inside a joined subquery) has a select or all grant, and    *)
(* every column referenced in its where clause or in a join condition is   *)
(* covered by a select or all grant.                                       *)
(***************************************************************************)
SelectGranted(table) ==
  \E i \in 1..Len(guard.grants) :
    /\ OnTable(guard.grants[i], table)
    /\ guard.grants[i].for \in {"select", "all"}

\* The table a source reads.
SourceTable(src) ==
  IF src.kind = "TableNode" THEN src.table ELSE src.node.from.items[1].table

DataSources(node) ==
  {SourceTable(SecondarySources(node)[i]) : i \in 1..Len(SecondarySources(node))}
  \cup (IF node.kind = "SelectQueryNode" /\ node.from.present
        THEN {SourceTable(node.from.items[i]) : i \in 1..Len(node.from.items)}
        ELSE {})

C25_SelectGrantNeeded ==
  (Transformed /\ IsStatement(input) /\ output.ok) =>
    /\ \A table \in DataSources(input) : SelectGranted(table)
    /\ \A i \in 1..Len(FilterRefs(input.where)) :
         Covered(FilterOwner(input, FilterRefs(input.where)[i]),
                 FilterRefs(input.where)[i].column, {"select", "all"})
    /\ \A i \in 1..Len(OnRefs(input.joins, 1)) :
         Covered(OnRefs(input.joins, 1)[i].table, OnRefs(input.joins, 1)[i].column,
                 {"select", "all"})

(***************************************************************************)
(* C26: when the table guard returns Allow with a predicate for the target *)
(* of a select or an update, every column reference of the predicate is    *)
(* passed to the column guard with (Select, ColumnInWhereOrJoin) under the *)
(* table it is qualified with, or the target when it is not.  A statement  *)
(* that transforms has had each of them asked about and none denied; when  *)
(* one is denied and nothing before the filter clause fails, the error is  *)
(* "FILTER denied on column <table>.<column>" for the first denied one.    *)
(***************************************************************************)
PredicateRefs(node) == RefsOf(TopLevelResult(node).pred)

\* The column guard has rules for filter columns only.
OnlyFilterRules ==
  \A i \in 1..Len(guard.column) :
    guard.column[i].context = ColumnUsageContext.ColumnInWhereOrJoin

C26_PredicateGuarded ==
  ( /\ Transformed
    /\ input.kind \in {"SelectQueryNode", "UpdateQueryNode"} /\ HasTarget(input)
    /\ TopLevelResult(input).tag = Allow /\ TopLevelResult(input).arr )
  => /\ output.ok =>
          \A i \in 1..Len(PredicateRefs(input)) :
            /\ \E k \in 1..Len(output.calls) :
                 output.calls[k] = FilterCall(input, PredicateRefs(input)[i])
            /\ FilterResult(input, PredicateRefs(input)[i]).tag # Deny
     /\ ( /\ FilterResultsIn(input, PredicateRefs(input), {Deny}) # {}
          /\ WellFormed(input) /\ ~MultiScope(input) /\ OnlyFilterRules )
        => LET ref == PredicateRefs(input)[FirstOf(FilterResultsIn(input, PredicateRefs(input), {Deny}))]
           IN /\ ~output.ok
              /\ output.error = ColumnDeniedMessage("FILTER", FilterOwner(input, ref), ref.column,
                                                    FilterResult(input, ref))

\* A select without a filter of its own fails on a column of the predicate.
C26_Witness ==
  /\ Transformed
  /\ input.kind = "SelectQueryNode" /\ HasTarget(input) /\ ~input.where.present
  /\ TopLevelResult(input).tag = Allow /\ TopLevelResult(input).arr
  /\ FilterResultsIn(input, PredicateRefs(input), {Deny}) # {}
  /\ output.error = "FILTER denied on column person.name"

\* An update that transforms after the predicate's column was asked about.
C26_WitnessAllowed ==
  /\ Transformed
  /\ input.kind = "UpdateQueryNode" /\ HasTarget(input)
  /\ TopLevelResult(input).tag = Allow /\ TopLevelResult(input).arr
  /\ guard.hasColumn
  /\ output.ok
  /\ \E k \in 1..Len(output.calls) : output.calls[k] = FilterCall(input, PredicateRefs(input)[1])

(***************************************************************************)
(* C27: a named table that is a join, from or using source and for which   *)
(* the table guard returns Allow with a predicate in the join context is   *)
(* replaced by a subquery over it, and while that subquery is traversed    *)
(* the table guard is asked again about the same table with (Select,       *)
(* TableTopLevel).  The second answer decides the subquery: a statement    *)
(* that transforms has both calls in this order and its subquery carries   *)
(* the predicate of the second answer (none when that is plain Allow), not *)
(* the one of the first; a Deny as second answer ends the transformation   *)
(* with "SELECT denied on table <table>" when nothing fails before it.     *)
(***************************************************************************)
SecondResult(src) ==
  fullGuardTable(src.table, StatementType.Select, TableUsageContext.TableTopLevel)

\* The subquery put in place of src, with the filter the answer r gives it.
SubqueryFor(src, r) ==
  IF r.arr THEN DerivedSubquery(src, r.pred)
  ELSE [DerivedSubquery(src, NoExpr) EXCEPT !.node.where = NoWhere]

\* The secondary sources that are replaced by a subquery.
Replaced(node) ==
  {i \in 1..Len(SecondarySources(node)) :
     /\ SecondarySources(node)[i].kind = "TableNode"
     /\ JoinResult(SecondarySources(node)[i], SourceType(node, i)).tag = Allow
     /\ JoinResult(SecondarySources(node)[i], SourceType(node, i)).arr}

C27_SecondCallDecides ==
  (Transformed /\ IsStatement(input) /\ HasTarget(input)) =>
    \A i \in Replaced(input) :
      LET src == SecondarySources(input)[i]
          first == TableCall(src.table, SourceType(input, i), TableUsageContext.TableInJoin)
          second == TableCall(src.table, StatementType.Select, TableUsageContext.TableTopLevel)
      IN /\ output.ok =>
              /\ SecondResult(src).tag = Allow
              /\ SecondarySources(output.val)[i] = SubqueryFor(src, SecondResult(src))
              /\ \E k1, k2 \in 1..Len(output.calls) :
                   /\ k1 < k2
                   /\ output.calls[k1] = first
                   /\ output.calls[k2] = second
         /\ ( /\ SecondResult(src).tag = Deny
              /\ Len(SecondarySources(input)) = 1
              /\ TopLevelResult(input).tag = Allow
              /\ guard.column = <<>> /\ WellFormed(input) )
            => /\ ~output.ok
               /\ output.error = TableDeniedMessage("SELECT", src.table, SecondResult(src))
               /\ output.calls[Len(output.calls)] = second

\* The second answer carries another predicate than the first: the
\* subquery is filtered by the second.
C27_Witness ==
  /\ Transformed /\ IsStatement(input) /\ HasTarget(input)
  /\ output.ok
  /\ \E i \in Replaced(input) :
       /\ SecondResult(SecondarySources(input)[i]).arr
       /\ SecondResult(SecondarySources(input)[i]).pred
            # JoinResult(SecondarySources(input)[i], SourceType(input, i)).pred
       /\ SecondarySources(output.val)[i].node.where.where
            = SecondResult(SecondarySources(input)[i]).pred

\* The second answer is Deny for the source of an update's from clause.
C27_WitnessDenied ==
  /\ Transformed /\ input.kind = "UpdateQueryNode"
  /\ Replaced(input) # {}
  /\ SecondResult(SecondarySources(input)[1]).tag = Deny
  /\ output.error = "SELECT denied on table person: secret"

(***************************************************************************)
(* C28: every column of a returning clause is authorized against the       *)
(* statement's target table (the insert's into table, the updated table,   *)
(* the delete's single from table) with the statement's own type; the      *)
(* qualifier written on the returned column is ignored, also when the      *)
(* update has from sources or the delete has using sources, so the column  *)
(* guard is never asked about a returned column under a secondary source's *)
(* own table.                                                              *)
(***************************************************************************)
Writes == {"InsertQueryNode", "UpdateQueryNode", "DeleteQueryNode"}

ReturningCall(node, item) ==
  ColumnCall(TargetOf(node), item.column, TypeOf(node),
             ColumnUsageContext.ColumnInSelectOrReturning)

C28_ReturningOnTarget ==
  (Transformed /\ input.kind \in Writes /\ HasTarget(input)) =>
    LET items == input.returning.items
        asked == InSelectOrReturning(output.calls)
    IN /\ Len(asked) <= Len(items)
       /\ \A k \in 1..Len(asked) : asked[k] = ReturningCall(input, items[k])
       /\ output.ok => Len(asked) = Len(items)
       /\ \A k \in 1..Len(output.calls) :
            (output.calls[k].fn = "column" /\ output.calls[k].table # TargetOf(input)) =>
              output.calls[k].context # ColumnUsageContext.ColumnInSelectOrReturning

\* An update with a from source returns a column written with that
\* source's table, which the guard denies for that table: the guard is
\* asked about the column under the updated table and the update passes.
C28_Witness ==
  /\ Transformed /\ input.kind = "UpdateQueryNode" /\ HasTarget(input)
  /\ Len(FromSources(input)) = 1
  /\ Len(input.returning.items) = 1
  /\ input.returning.items[1].table = FromSources(input)[1].table
  /\ input.returning.items[1].table # TargetOf(input)
  /\ fullGuardColumn(input.returning.items[1].table, input.returning.items[1].column,
                     StatementType.Update,
                     ColumnUsageContext.ColumnInSelectOrReturning).tag = Deny
  /\ output.ok
  /\ InSelectOrReturning(output.calls)
       = <<ReturningCall(input, input.returning.items[1])>>

\* The same for a delete with a using source.
C28_WitnessDelete ==
  /\ Transformed /\ input.kind = "DeleteQueryNode" /\ HasTarget(input)
  /\ Len(FromSources(input)) = 1
  /\ Len(input.returning.items) = 1
  /\ input.returning.items[1].table = FromSources(input)[1].table
  /\ input.returning.items[1].table # TargetOf(input)
  /\ output.ok
  /\ InSelectOrReturning(output.calls)
       = <<ReturningCall(input, input.returning.items[1])>>

(***************************************************************************)
(* C29: the projection of a select nested anywhere below a join, an        *)
(* update's from clause or a delete's using clause is returned unchanged,  *)
(* wildcards and explicit columns alike, and the column guard is never     *)
(* asked about its items with context ColumnInSelectOrReturning: every     *)
(* call in that context is for an item of the statement's own projection,  *)
(* so a Deny or Omit for a nested item has no effect.                      *)
(***************************************************************************)
\* The projections of the selects nested in the sources of out are those
\* of the selects nested in the sources of in; a source the plugin
\* replaced by a subquery projects the wildcard it was created with.
RECURSIVE SameProjections(_, _)
SameProjections(in, out) ==
  /\ Len(SecondarySources(out)) = Len(SecondarySources(in))
  /\ \A i \in 1..Len(SecondarySources(in)) :
       LET src == SecondarySources(in)[i]
           res == SecondarySources(out)[i]
       IN IF src.kind = "AliasNode"
          THEN /\ res.kind = "AliasNode"
               /\ res.node.selections = src.node.selections
               /\ SameProjections(src.node, res.node)
          ELSE res.kind = "AliasNode" =>
                 res.node.selections = Clause(<<SelectionCreateSelectAll>>)

\* The selects nested in the sources of a statement, at any depth.
RECURSIVE NestedSelects(_)
NestedSelects(node) ==
  UNION {{SecondarySources(node)[i].node} \cup NestedSelects(SecondarySources(node)[i].node) :
           i \in {j \in 1..Len(SecondarySources(node)) :
                    SecondarySources(node)[j].kind = "AliasNode"}}

NestedResult(q, item) ==
  fullGuardColumn(TargetOf(q), item.column, StatementType.Select,
                  ColumnUsageContext.ColumnInSelectOrReturning)

C29_NestedProjectionUnguarded ==
  (Transformed /\ IsStatement(input) /\ HasTarget(input)) =>
    LET items == Projection(input).items
        asked == InSelectOrReturning(output.calls)
    IN /\ Len(asked) <= Len(items)
       /\ \A k \in 1..Len(asked) : asked[k] = ProjectionCall(input, items[k])
       /\ output.ok => SameProjections(input, output.val)

\* A nested select below an update's from clause or a delete's using
\* clause projects a column the guard denies in a projection, next to a
\* wildcard: the statement passes and the nested projection is kept.
C29_Witness ==
  /\ Transformed /\ input.kind \in {"UpdateQueryNode", "DeleteQueryNode"} /\ HasTarget(input)
  /\ \E q \in NestedSelects(input) :
       /\ Len(q.selections.items) = 2
       /\ ~q.selections.items[1].isRef
       /\ NestedResult(q, q.selections.items[2]).tag = Deny
  /\ output.ok
  /\ SecondarySources(output.val)[1].node.selections = SecondarySources(input)[1].node.selections

\* The same two levels below a select's join, with an Omit.
C29_WitnessDeep ==
  /\ Transformed /\ input.kind = "SelectQueryNode" /\ HasTarget(input)
  /\ Len(input.joins) = 1 /\ input.joins[1].table.kind = "AliasNode"
  /\ Len(input.joins[1].table.node.joins) = 1
  /\ \E q \in NestedSelects(input.joins[1].table.node) :
       /\ NestedResult(q, q.selections.items[2]).tag = Omit
       /\ output.ok
       /\ output.val.joins[1].table.node.joins[1].table.node.selections = q.selections

(***************************************************************************)
(* C30: the statement type given to the guards does not always follow the  *)
(* enclosing statement.  Every column reference of a where clause or join  *)
(* condition is guarded with statement type Select, in an update or delete *)
(* too; a named table of a join clause is guarded with Select, a named     *)
(* source of an update's from clause with Update and of a delete's using   *)
(* clause with Delete, each in context TableInJoin.                        *)
(***************************************************************************)
InJoin(calls) ==
  SelectSeq(calls, LAMBDA c : c.context = TableUsageContext.TableInJoin)

\* The guard calls for the named secondary sources, in traversal order.
SourceCalls(node) ==
  SelectSeq([i \in 1..Len(SecondarySources(node)) |->
               TableCall(SecondarySources(node)[i].table, SourceType(node, i),
                         TableUsageContext.TableInJoin)],
            LAMBDA c : c.table # NoTable)

Range(seq) == {seq[i] : i \in 1..Len(seq)}

C30_StatementTypes ==
  (Transformed /\ IsStatement(input) /\ HasTarget(input)) =>
    /\ \A k \in 1..Len(output.calls) :
         /\ output.calls[k].context = ColumnUsageContext.ColumnInWhereOrJoin =>
              output.calls[k].statementType = StatementType.Select
         /\ output.calls[k].context = TableUsageContext.TableInJoin =>
              output.calls[k] \in Range(SourceCalls(input))
    /\ output.ok =>
         /\ InJoin(output.calls) = SourceCalls(input)
         /\ \A ref \in Range(OnRefs(input.joins, 1) \o FilterRefs(input.where)) :
              FilterCall(input, ref) \in Range(output.calls)

\* An update reads from a second table and filters on a column: the source
\* is guarded with Update, the column with Select although the guard
\* answers otherwise for that column with Update.
C30_Witness ==
  /\ Transformed /\ input.kind = "UpdateQueryNode" /\ HasTarget(input)
  /\ Len(FromSources(input)) = 1 /\ FromSources(input)[1].kind = "TableNode"
  /\ Len(FilterRefs(input.where)) = 1
  /\ output.ok
  /\ TableCall(FromSources(input)[1].table, StatementType.Update,
               TableUsageContext.TableInJoin) \in Range(output.calls)
  /\ FilterCall(input, FilterRefs(input.where)[1]) \in Range(output.calls)
  /\ fullGuardColumn(FilterOwner(input, FilterRefs(input.where)[1]),
                     FilterRefs(input.where)[1].column, StatementType.Update,
                     ColumnUsageContext.ColumnInWhereOrJoin)
       # FilterResult(input, FilterRefs(input.where)[1])

\* A delete uses a second table and filters on a column.
C30_WitnessDelete ==
  /\ Transformed /\ input.kind = "DeleteQueryNode" /\ HasTarget(input)
  /\ Len(FromSources(input)) = 1 /\ FromSources(input)[1].kind = "TableNode"
  /\ Len(FilterRefs(input.where)) = 1
  /\ output.ok
  /\ InJoin(output.calls)
       = <<TableCall(FromSources(input)[1].table, StatementType.Delete,
                     TableUsageContext.TableInJoin)>>
  /\ InWhereOrJoin(output.calls) = <<FilterCall(input, FilterRefs(input.where)[1])>>

\* An update joins a second table: the joined table is guarded with Select.
C30_WitnessJoin ==
  /\ Transformed /\ input.kind = "UpdateQueryNode" /\ HasTarget(input)
  /\ Len(input.joins) = 1 /\ input.joins[1].table.kind = "TableNode"
  /\ output.ok
  /\ InJoin(output.calls)
       = <<TableCall(input.joins[1].table.table, StatementType.Select,
                     TableUsageContext.TableInJoin)>>
  /\ fullGuardTable(input.joins[1].table.table, StatementType.Update,
                    TableUsageContext.TableInJoin).tag = Deny

====
